---- MODULE Spec2Model ----
(***************************************************************************)
(* Model of the notes_agent engine (notes_generater/src/notes_agent).      *)
(*                                                                         *)
(* Spec: the round state machine (workflow_orchestrator.py).  Persisted    *)
(* documents: state/round_status.json, state/session.json and the runs/    *)
(* directory.  One invocation of run()/resume() is in flight at a time;    *)
(* its frame is pc, call, cur, workflow_status and round_results.  The     *)
(* collaborators (execution adapter, verification runner, diff service)    *)
(* are the environment: each round draws their outcomes.  The explored     *)
(* behaviours are those with at most MaxEvents events: a call after the    *)
(* first, an argument that differs from its default, a collaborator        *)
(* outcome other than the nominal one, a kill, a corruption.               *)
(*                                                                         *)
(* SpecExecutor: CodexExecutor.run (codex_executor.py), one step per       *)
(* subprocess; the tool's exit codes and outputs are the environment.      *)
(*                                                                         *)
(* SpecStore: _write_json, one step per file operation, with a kill        *)
(* between any two of them.                                                *)
(*                                                                         *)
(* SpecCheck: CheckRunner.run (check_runner.py); the verification script   *)
(* is the environment: it exits in time or the timeout expires.            *)
(*                                                                         *)
(* SpecSnapshot: SnapshotService.create_snapshot and verify_snapshot_hashes*)
(* (snapshot_service.py), one step per call, on a file system with         *)
(* symbolic links; copied files are changed between the calls.             *)
(* SpecManifest: verify_snapshot_hashes on a hash manifest that a third    *)
(* party has replaced.                                                     *)
(*                                                                         *)
(* SpecDiff: DiffService.capture_state (diff_service.py) on a notes tree   *)
(* whose files and symbolic links come and go between the calls.           *)
(*                                                                         *)
(* SpecHistory: RunHistoryService.list_runs, resolve_patch_path and        *)
(* read_patch (run_history_service.py), one step per call, on run          *)
(* directories whose workflow_result.json is rewritten between the calls.  *)
(***************************************************************************)
EXTENDS Integers, Sequences, FiniteSets, TLC

\* ---------------------------------------------------------------- bounds
MaxChanged == 1     \* largest changed_files / changed_lines of a diff
MaxEvents == 3      \* further calls, non-default arguments, non-nominal outcomes
MaxRetries == 2     \* largest max_retries of a CodexRunRequest
MaxRuns == 2        \* calls of CodexExecutor.run
MaxDocs == 2        \* distinct documents written by _write_json
MaxWrites == 2      \* calls of _write_json
MaxChecks == 2      \* calls of CheckRunner.run
MaxTampered == 2    \* snapshot files changed behind the engine's back
MaxStarts == 2      \* calls of TimerService.start
MaxCycles == 2      \* largest cycles of a TimerConfig
MaxSeconds == 1     \* longest interval of a TimerConfig, in ticks

\* ------------------------------------------------------------- constants
RUN_ORDER == <<"round0", "round1", "round2", "round3", "final">>

RoundNames == {RUN_ORDER[i] : i \in 1..Len(RUN_ORDER)}

RoundStatuses == {"pending", "running", "completed", "failed", "paused"}

None == "None"

NullRunId == 0

\* The workflow run ids that are single path components, numbered.
RunIds == 1..(MaxEvents + 1)

\* The workflow_run_id "../wf_escape"; as a member of run_dirs, the directory
\* wf_escape next to runs/.
EscapeRunId == -1

\* RUN_ORDER.index(round_name), tabulated
RoundIndexes == [r \in RoundNames |-> CHOOSE i \in 1..Len(RUN_ORDER) : RUN_ORDER[i] = r]

RoundIndex(round_name) == RoundIndexes[round_name]

default_round_status_payload == [r \in RoundNames |-> "pending"]

default_session_payload == [status |-> "idle", current_run_id |-> NullRunId]

\* ------------------------------------------------- arguments of run/resume
Limits == -1..MaxChanged

Policies ==
  [auto_repair_check_failures : BOOLEAN, pause_after_each_round : BOOLEAN,
   max_changed_lines : Limits, max_changed_files : Limits]

\* run()'s defaults: auto repair on, no pause after each round, and limits
\* no modelled diff exceeds (ProjectConfig: 500 lines, 20 files).
DefaultPolicy ==
  [auto_repair_check_failures |-> TRUE, pause_after_each_round |-> FALSE,
   max_changed_lines |-> MaxChanged, max_changed_files |-> MaxChanged]

PolicyCost(p) ==
  (IF p.auto_repair_check_failures = DefaultPolicy.auto_repair_check_failures THEN 0 ELSE 1)
  + (IF p.pause_after_each_round = DefaultPolicy.pause_after_each_round THEN 0 ELSE 1)
  + (IF p.max_changed_lines = DefaultPolicy.max_changed_lines THEN 0 ELSE 1)
  + (IF p.max_changed_files = DefaultPolicy.max_changed_files THEN 0 ELSE 1)

\* The policies a call can afford with b events left.
PoliciesWithin == [b \in 0..MaxEvents |-> {p \in Policies : PolicyCost(p) <= b}]

\* ------------------------------------------------------ the environment
\* DiffSummary(changed_files, changed_lines): no changed file, no changed line.
Diffs ==
  {d \in [changed_files : 0..MaxChanged, changed_lines : 0..MaxChanged] :
     d.changed_files = 0 => d.changed_lines = 0}

NoDiff == [changed_files |-> 0, changed_lines |-> 0]

CodexOutcomes == {"success", "failure", "raise"}

CheckOutcomes == {"passed", "failed", "raise"}

\* ------------------------------------------------------- pure functions
\* Faulty variant of select_rounds_raises: the range check is off by one.
select_rounds_raises_off_by_one(from_round, to_round) ==
  RoundIndex(from_round) > RoundIndex(to_round) + 1

\* _select_rounds: the contiguous slice of RUN_ORDER, or a ValueError.
select_rounds_raises(from_round, to_round) ==
  RoundIndex(from_round) > RoundIndex(to_round)

select_rounds(from_round, to_round) ==
  SubSeq(RUN_ORDER, RoundIndex(from_round), RoundIndex(to_round))

\* Faulty variant of first_started_index: the scan starts at round0 as soon
\* as some round is not pending.
first_started_index_at_round0(round_status) ==
  IF \A i \in 1..Len(RUN_ORDER) : round_status[RUN_ORDER[i]] = "pending"
  THEN 0
  ELSE 1

\* statuses = [round_status.get(name, "pending") for name in RUN_ORDER]
\* and the first index whose status is not "pending" (0: there is none).
first_started_index(round_status) ==
  IF \A i \in 1..Len(RUN_ORDER) : round_status[RUN_ORDER[i]] = "pending"
  THEN 0
  ELSE CHOOSE i \in 1..Len(RUN_ORDER) :
         /\ round_status[RUN_ORDER[i]] # "pending"
         /\ \A j \in 1..(i - 1) : round_status[RUN_ORDER[j]] = "pending"

\* Faulty variant of resume_scan: a paused round is the resume point itself.
RECURSIVE resume_scan_retries_paused(_, _)
resume_scan_retries_paused(round_status, idx) ==
  IF idx > Len(RUN_ORDER) THEN None
  ELSE IF round_status[RUN_ORDER[idx]] \in {"pending", "failed", "running", "paused"}
       THEN RUN_ORDER[idx]
       ELSE resume_scan_retries_paused(round_status, idx + 1)

\* The second loop of _resolve_resume_from_round, from index idx on.
RECURSIVE resume_scan(_, _)
resume_scan(round_status, idx) ==
  IF idx > Len(RUN_ORDER) THEN None
  ELSE LET status == round_status[RUN_ORDER[idx]] IN
       IF status \in {"pending", "failed", "running"} THEN RUN_ORDER[idx]
       ELSE IF status = "paused"
            THEN (IF idx + 1 > Len(RUN_ORDER) THEN None ELSE RUN_ORDER[idx + 1])
            ELSE resume_scan(round_status, idx + 1)

resolve_resume_from_round(round_status) ==
  IF first_started_index(round_status) = 0 THEN "round0"
  ELSE resume_scan(round_status, first_started_index(round_status))

\* Faulty variant of evaluate_pause: a negative limit does not switch a threshold off.
evaluate_pause_negative_limit(round_name, diff, pause_after_round, changed_lines_limit, changed_files_limit) ==
  IF round_name # "round0" /\ diff.changed_files > changed_files_limit
  THEN "changed_files threshold exceeded"
  ELSE IF round_name # "round0" /\ diff.changed_lines > changed_lines_limit
       THEN "changed_lines threshold exceeded"
       ELSE IF pause_after_round THEN "pause_after_each_round enabled" ELSE None

\* Faulty variant of evaluate_pause: the changed lines are held against the file limit.
evaluate_pause_wrong_limit(round_name, diff, pause_after_round, changed_lines_limit, changed_files_limit) ==
  IF /\ round_name # "round0"
     /\ changed_files_limit >= 0
     /\ diff.changed_files > changed_files_limit
  THEN "changed_files threshold exceeded"
  ELSE IF /\ round_name # "round0"
          /\ changed_files_limit >= 0
          /\ diff.changed_lines > changed_files_limit
       THEN "changed_lines threshold exceeded"
       ELSE IF pause_after_round THEN "pause_after_each_round enabled" ELSE None

\* Faulty variant of evaluate_pause: the pause_after_round flag is looked at
\* for the rounds after round0 only.
evaluate_pause_flag_skips_round0(round_name, diff, pause_after_round, changed_lines_limit, changed_files_limit) ==
  IF /\ round_name # "round0"
     /\ changed_files_limit >= 0
     /\ diff.changed_files > changed_files_limit
  THEN "changed_files threshold exceeded"
  ELSE IF /\ round_name # "round0"
          /\ changed_lines_limit >= 0
          /\ diff.changed_lines > changed_lines_limit
       THEN "changed_lines threshold exceeded"
       ELSE IF round_name # "round0" /\ pause_after_round
            THEN "pause_after_each_round enabled" ELSE None

\* Faulty variant of _evaluate_pause: the thresholds apply to round0 too.
evaluate_pause_thresholds_on_round0(round_name, diff, pause_after_round, changed_lines_limit, changed_files_limit) ==
  IF /\ changed_files_limit >= 0
     /\ diff.changed_files > changed_files_limit
  THEN "changed_files threshold exceeded"
  ELSE IF /\ changed_lines_limit >= 0
          /\ diff.changed_lines > changed_lines_limit
       THEN "changed_lines threshold exceeded"
       ELSE IF pause_after_round THEN "pause_after_each_round enabled" ELSE None

\* _evaluate_pause: the pause reason, or None.
evaluate_pause(round_name, diff, pause_after_round, changed_lines_limit, changed_files_limit) ==
  IF /\ round_name # "round0"
     /\ changed_files_limit >= 0
     /\ diff.changed_files > changed_files_limit
  THEN "changed_files threshold exceeded"
  ELSE IF /\ round_name # "round0"
          /\ changed_lines_limit >= 0
          /\ diff.changed_lines > changed_lines_limit
       THEN "changed_lines threshold exceeded"
       ELSE IF pause_after_round THEN "pause_after_each_round enabled" ELSE None

\* f"{workflow_id}_{round_name}" and f"{workflow_id}_{round_name}_repair1"
codex_run_id(workflow_id, round_name) == <<workflow_id, round_name>>

repair_run_id(workflow_id, round_name) == <<workflow_id, round_name, "repair1">>

NoRunId == <<>>

RoundExecutionResult(round_name, status, run_id, codex_success, check_passed, repaired, diff, pause_reason) ==
  [round_name |-> round_name, status |-> status, codex_run_id |-> run_id,
   codex_success |-> codex_success, check_passed |-> check_passed,
   repaired |-> repaired, changed_files |-> diff.changed_files,
   changed_lines |-> diff.changed_lines, pause_reason |-> pause_reason]

\* The tail of a round whose verification passed: pause evaluation and the
\* appended result (lines 190-219 for round0, 340-369 for the others).
passed_round(round_name, p, run_id, codex_success, repaired, diff) ==
  LET pause_reason == evaluate_pause(round_name, diff, p.pause_after_each_round,
                                     p.max_changed_lines, p.max_changed_files)
  IN RoundExecutionResult(round_name, IF pause_reason # None THEN "paused" ELSE "completed",
                          run_id, codex_success, "True", repaired, diff, pause_reason)

\* Faulty variant of execute_round0: round0 invokes the execution adapter
\* before its verification.
execute_round0_generates(p, s) ==
  IF s.check = "raise"
  THEN [raised |-> TRUE, init_calls |-> 1, codex_calls |-> 1, check_calls |-> 1]
  ELSE [raised |-> FALSE, init_calls |-> 1, codex_calls |-> 1, check_calls |-> 1,
        result |-> IF s.check = "failed"
                   THEN RoundExecutionResult("round0", "failed", NoRunId, None, "False",
                                             FALSE, s.diff, None)
                   ELSE passed_round("round0", p, NoRunId, None, FALSE, s.diff)]

\* round0: scaffold initializer, then verification, no generation.
execute_round0(p, s) ==
  IF s.check = "raise"
  THEN [raised |-> TRUE, init_calls |-> 1, codex_calls |-> 0, check_calls |-> 1]
  ELSE [raised |-> FALSE, init_calls |-> 1, codex_calls |-> 0, check_calls |-> 1,
        result |-> IF s.check = "failed"
                   THEN RoundExecutionResult("round0", "failed", NoRunId, None, "False",
                                             FALSE, s.diff, None)
                   ELSE passed_round("round0", p, NoRunId, None, FALSE, s.diff)]

\* Faulty variant of execute_repair: final_run stays the primary run.
execute_repair_keeps_primary_run(round_name, p, workflow_id, s) ==
  LET rid == codex_run_id(workflow_id, round_name) IN
  IF s.repair = "raise"
  THEN [raised |-> TRUE, init_calls |-> 0, codex_calls |-> 2, check_calls |-> 1]
  ELSE IF s.repair = "failure"
  THEN [raised |-> FALSE, init_calls |-> 0, codex_calls |-> 2, check_calls |-> 1,
        result |-> RoundExecutionResult(round_name, "failed", rid, "False", None,
                                        TRUE, s.diff, None)]
  ELSE IF s.recheck = "raise"
  THEN [raised |-> TRUE, init_calls |-> 0, codex_calls |-> 2, check_calls |-> 2]
  ELSE [raised |-> FALSE, init_calls |-> 0, codex_calls |-> 2, check_calls |-> 2,
        result |-> IF s.recheck = "failed"
                   THEN RoundExecutionResult(round_name, "failed", rid, "True", "False",
                                             TRUE, s.diff, None)
                   ELSE passed_round(round_name, p, rid, "True", TRUE, s.diff)]

\* Faulty variant of execute_repair: a repair whose verification fails again
\* leaves the round completed.
execute_repair_ignores_second_failure(round_name, p, workflow_id, s) ==
  LET rid == repair_run_id(workflow_id, round_name) IN
  IF s.repair = "raise"
  THEN [raised |-> TRUE, init_calls |-> 0, codex_calls |-> 2, check_calls |-> 1]
  ELSE IF s.repair = "failure"
  THEN [raised |-> FALSE, init_calls |-> 0, codex_calls |-> 2, check_calls |-> 1,
        result |-> RoundExecutionResult(round_name, "failed", rid, "False", None,
                                        TRUE, s.diff, None)]
  ELSE IF s.recheck = "raise"
  THEN [raised |-> TRUE, init_calls |-> 0, codex_calls |-> 2, check_calls |-> 2]
  ELSE [raised |-> FALSE, init_calls |-> 0, codex_calls |-> 2, check_calls |-> 2,
        result |-> IF s.recheck = "failed"
                   THEN RoundExecutionResult(round_name, "completed", rid, "True", "False",
                                             TRUE, s.diff, None)
                   ELSE passed_round(round_name, p, rid, "True", TRUE, s.diff)]

\* The repair branch (lines 254-280) and what follows it.
execute_repair(round_name, p, workflow_id, s) ==
  LET rid == repair_run_id(workflow_id, round_name) IN
  IF s.repair = "raise"
  THEN [raised |-> TRUE, init_calls |-> 0, codex_calls |-> 2, check_calls |-> 1]
  ELSE IF s.repair = "failure"
  THEN [raised |-> FALSE, init_calls |-> 0, codex_calls |-> 2, check_calls |-> 1,
        result |-> RoundExecutionResult(round_name, "failed", rid, "False", None,
                                        TRUE, s.diff, None)]
  ELSE IF s.recheck = "raise"
  THEN [raised |-> TRUE, init_calls |-> 0, codex_calls |-> 2, check_calls |-> 2]
  ELSE [raised |-> FALSE, init_calls |-> 0, codex_calls |-> 2, check_calls |-> 2,
        result |-> IF s.recheck = "failed"
                   THEN RoundExecutionResult(round_name, "failed", rid, "True", "False",
                                             TRUE, s.diff, None)
                   ELSE passed_round(round_name, p, rid, "True", TRUE, s.diff)]

\* Faulty variant of execute_codex_round: a failed verification is repaired whether
\* or not auto_repair_check_failures is set.
execute_codex_round_always_repairs(round_name, p, workflow_id, s) ==
  LET rid == codex_run_id(workflow_id, round_name) IN
  IF s.codex = "raise"
  THEN [raised |-> TRUE, init_calls |-> 0, codex_calls |-> 1, check_calls |-> 0]
  ELSE IF s.codex = "failure"
  THEN [raised |-> FALSE, init_calls |-> 0, codex_calls |-> 1, check_calls |-> 0,
        result |-> RoundExecutionResult(round_name, "failed", rid, "False", None,
                                        FALSE, s.diff, None)]
  ELSE IF s.check = "raise"
  THEN [raised |-> TRUE, init_calls |-> 0, codex_calls |-> 1, check_calls |-> 1]
  ELSE IF s.check = "failed"
  THEN execute_repair(round_name, p, workflow_id, s)
  ELSE [raised |-> FALSE, init_calls |-> 0, codex_calls |-> 1, check_calls |-> 1,
        result |-> passed_round(round_name, p, rid, "True", FALSE, s.diff)]

\* Faulty variant of execute_codex_round: a failed generation is verified all the
\* same.
execute_codex_round_verifies_failed_generation(round_name, p, workflow_id, s) ==
  LET rid == codex_run_id(workflow_id, round_name) IN
  IF s.codex = "raise"
  THEN [raised |-> TRUE, init_calls |-> 0, codex_calls |-> 1, check_calls |-> 0]
  ELSE IF s.codex = "failure"
  THEN [raised |-> FALSE, init_calls |-> 0, codex_calls |-> 1, check_calls |-> 1,
        result |-> RoundExecutionResult(round_name, "failed", rid, "False", "True",
                                        FALSE, s.diff, None)]
  ELSE IF s.check = "raise"
  THEN [raised |-> TRUE, init_calls |-> 0, codex_calls |-> 1, check_calls |-> 1]
  ELSE IF s.check = "failed" /\ p.auto_repair_check_failures
  THEN execute_repair(round_name, p, workflow_id, s)
  ELSE [raised |-> FALSE, init_calls |-> 0, codex_calls |-> 1, check_calls |-> 1,
        result |-> IF s.check = "failed"
                   THEN RoundExecutionResult(round_name, "failed", rid, "True", "False",
                                             FALSE, s.diff, None)
                   ELSE passed_round(round_name, p, rid, "True", FALSE, s.diff)]

\* A round other than round0 (lines 225-369).
execute_codex_round(round_name, p, workflow_id, s) ==
  LET rid == codex_run_id(workflow_id, round_name) IN
  IF s.codex = "raise"
  THEN [raised |-> TRUE, init_calls |-> 0, codex_calls |-> 1, check_calls |-> 0]
  ELSE IF s.codex = "failure"
  THEN [raised |-> FALSE, init_calls |-> 0, codex_calls |-> 1, check_calls |-> 0,
        result |-> RoundExecutionResult(round_name, "failed", rid, "False", None,
                                        FALSE, s.diff, None)]
  ELSE IF s.check = "raise"
  THEN [raised |-> TRUE, init_calls |-> 0, codex_calls |-> 1, check_calls |-> 1]
  ELSE IF s.check = "failed" /\ p.auto_repair_check_failures
  THEN execute_repair(round_name, p, workflow_id, s)
  ELSE [raised |-> FALSE, init_calls |-> 0, codex_calls |-> 1, check_calls |-> 1,
        result |-> IF s.check = "failed"
                   THEN RoundExecutionResult(round_name, "failed", rid, "True", "False",
                                             FALSE, s.diff, None)
                   ELSE passed_round(round_name, p, rid, "True", FALSE, s.diff)]

execute_round(round_name, p, workflow_id, s) ==
  IF round_name = "round0" THEN execute_round0(p, s)
  ELSE execute_codex_round(round_name, p, workflow_id, s)

\* What the collaborators can do during a round: only the calls the round
\* reaches draw an outcome, the others stay at their nominal value, and a
\* round that ends with an exception has no diff.
RoundScripts(round_name, p) ==
  LET codexes == IF round_name = "round0" THEN {"success"} ELSE CodexOutcomes
      checks(c) == IF c = "success" THEN CheckOutcomes ELSE {"passed"}
      repairs(c, k) ==
        IF round_name # "round0" /\ c = "success" /\ k = "failed"
           /\ p.auto_repair_check_failures
        THEN CodexOutcomes ELSE {"success"}
      rechecks(c, k, r) ==
        IF round_name # "round0" /\ c = "success" /\ k = "failed"
           /\ p.auto_repair_check_failures /\ r = "success"
        THEN CheckOutcomes ELSE {"passed"}
      diffs(c, k, r, k2) ==
        IF "raise" \in {c, k, r, k2} THEN {NoDiff} ELSE Diffs
  IN UNION {UNION {UNION {UNION {
       {[codex |-> c, check |-> k, repair |-> r, recheck |-> k2, diff |-> d] :
          d \in diffs(c, k, r, k2)} :
       k2 \in rechecks(c, k, r)} : r \in repairs(c, k)} : k \in checks(c)} :
       c \in codexes}

ScriptCost(s) ==
  (IF s.codex = "success" THEN 0 ELSE 1) + (IF s.check = "passed" THEN 0 ELSE 1)
  + (IF s.repair = "success" THEN 0 ELSE 1) + (IF s.recheck = "passed" THEN 0 ELSE 1)
  + (IF s.diff = NoDiff THEN 0 ELSE 1)

\* The scripts of a round that at most b events can pay for, tabulated: only
\* the round being round0 or not and auto_repair_check_failures tell the
\* rounds' scripts apart.
ScriptsWithin ==
  [is_round0 \in BOOLEAN, auto_repair \in BOOLEAN, b \in 0..MaxEvents |->
     {s \in RoundScripts(IF is_round0 THEN "round0" ELSE "round1",
                         [DefaultPolicy EXCEPT !.auto_repair_check_failures = auto_repair]) :
        ScriptCost(s) <= b}]

\* Faulty variant of final_session_status: a paused workflow leaves the session
\* failed_recoverable.
final_session_status_drops_paused(status) ==
  IF status = "succeeded" THEN "idle" ELSE "failed_recoverable"

\* The session status written after the loop (lines 375-380).
final_session_status(status) ==
  IF status = "succeeded" THEN "idle"
  ELSE IF status = "paused" THEN "paused"
  ELSE "failed_recoverable"

\* ------------------------------------------- CodexExecutor (codex_executor.py)
\* Texts are sequences of words.  What the tool prints in the explored
\* behaviours:
Stdios ==
  {<<>>, <<"ok">>, <<"network", "timeout">>, <<"Connection", "timed", "out">>,
   <<"invalid", "argument">>, <<"timed">>}

ReturnCodes == {0, 1}

\* The run_id arguments: none (the default id is generated), a single path
\* component, "../escape" and "nested/run".
RunIdArgs == {<<>>, <<"run_a">>, <<"..", "escape">>, <<"nested", "run">>}

\* _default_run_id(): a timestamp and a random suffix, one per call.
default_run_id(n) == <<<<"run_default_1">>, <<"run_default_2">>, <<"run_default_3">>,
                       <<"run_default_4">>>>[n]

\* str.lower()
lower(text) ==
  [i \in DOMAIN text |->
     CASE text[i] = "Connection" -> "connection"
       [] OTHER -> text[i]]

\* marker in text
contains(text, marker) ==
  \E i \in 1..(Len(text) - Len(marker) + 1) :
    SubSeq(text, i, i + Len(marker) - 1) = marker

retryable_markers ==
  {<<"timeout">>, <<"timed", "out">>, <<"network">>, <<"stream", "disconnected">>,
   <<"error", "sending", "request">>, <<"reconnecting">>, <<"connection", "reset">>,
   <<"connection", "refused">>, <<"temporarily", "unavailable">>, <<"stream", "error">>,
   <<"502">>, <<"503">>, <<"504">>}

\* Faulty variant of is_retryable_failure: every output is taken as transient.
is_retryable_failure_any_output(stdio) == stdio = stdio

\* _is_retryable_failure
is_retryable_failure(stdio) ==
  \E marker \in retryable_markers : contains(lower(stdio), marker)

\* Faulty variant of max_retries_rejected: -1 is let through.
max_retries_rejected_below_minus_one(max_retries) == max_retries < -1

\* if request.max_retries < 0: raise ValueError
max_retries_rejected(max_retries) == max_retries < 0

\* range(1, request.max_retries + 2)
attempt_range(max_retries) == 1..(max_retries + 1)

\* Faulty variant of attempts_remain: one retry short.
attempts_remain_one_short(attempt, max_retries) == attempt < max_retries

\* Faulty variant of attempts_remain: the last attempt of the range is marked
\* for a retry too.
attempts_remain_one_more(attempt, max_retries) == attempt <= max_retries + 1

\* attempt <= request.max_retries
attempts_remain(attempt, max_retries) == attempt <= max_retries

\* The directory a path denotes once "." and ".." are resolved.
RECURSIVE resolve(_)
resolve(parts) ==
  IF parts = <<>> THEN <<>>
  ELSE LET head == resolve(SubSeq(parts, 1, Len(parts) - 1))
           last == parts[Len(parts)]
       IN IF last = ".." THEN (IF head = <<>> THEN <<>>
                               ELSE SubSeq(head, 1, Len(head) - 1))
          ELSE IF last = "." THEN head
          ELSE Append(head, last)

\* project_root / "runs" / run_id, relative to the project root.
run_dir(run_id) == resolve(<<"runs">> \o run_id)

\* validate_path_component accepts the value (path_utils.py).
single_path_component(parts) == Len(parts) = 1 /\ parts[1] \notin {".", ".."}

NoRequest == [run_id |-> <<>>, max_retries |-> 0, entry_dirs |-> {}]

NoCodexResult ==
  [kind |-> None, error |-> None, run_id |-> <<>>, success |-> FALSE,
   attempts |-> 0, exit_code |-> 0]

CodexRaised(error) == [NoCodexResult EXCEPT !.kind = "raised", !.error = error]

\* CodexRunResult(run_id, success, attempts, exit_code, error)
CodexRunResult(run_id, success, attempts, exit_code, error) ==
  [kind |-> "returned", error |-> error, run_id |-> run_id, success |-> success,
   attempts |-> attempts, exit_code |-> exit_code]

NoManifest ==
  [run_id |-> <<>>, max_retries |-> 0, attempts |-> <<>>, final_exit_code |-> 0,
   success |-> FALSE]

\* ------------------------------------------------ _write_json / _read_json
\* The documents written in the explored behaviours are numbered from 1.
Documents == 1..MaxDocs

StorePaths ==
  {<<"session", "json">>, <<"round_status", "json">>, <<"workflow_result", "json">>}

\* json.dump(payload, fp, ...) followed by fp.write("\n"): the text of the
\* file, in the pieces that reach it.
dump(payload) == <<"{", payload, "}", "newline">>

\* json.load: the document of a well-formed text, an error for any other.
load(text) ==
  IF /\ Len(text) \in {3, 4}
     /\ text[1] = "{"
     /\ text[3] = "}"
     /\ Len(text) = 4 => text[4] = "newline"
  THEN [error |-> None, document |-> text[2]]
  ELSE [error |-> "JSONDecodeError", document |-> 0]

\* _read_json on the files fs.
read_json(fs, path) ==
  IF path \in DOMAIN fs THEN load(fs[path])
  ELSE [error |-> "FileNotFoundError", document |-> 0]

\* Faulty variant of temp_path: the text is written over the target itself.
temp_path_in_place(path) == path

\* path.with_suffix(path.suffix + ".tmp")
temp_path(path) == Append(path, "tmp")

NoWrite ==
  [path |-> <<>>, payload |-> 0, before |-> [error |-> None, document |-> 0]]

\* ---------------------------------------------- CheckRunner (check_runner.py)
DEFAULT_CHECK_TIMEOUT_SECONDS == 300

\* The timeout_seconds of the runners of the explored behaviours, and the
\* text of each in an f-string.
TimeoutSeconds == {1, DEFAULT_CHECK_TIMEOUT_SECONDS}

seconds_text(timeout_seconds) ==
  IF timeout_seconds = 1 THEN "1" ELSE "300"

Whitespace == {"newline", "space"}

\* str.strip()
strip(text) ==
  LET kept == {i \in DOMAIN text : text[i] \notin Whitespace} IN
  IF kept = {} THEN <<>>
  ELSE SubSeq(text, CHOOSE i \in kept : \A j \in kept : i <= j,
                    CHOOSE i \in kept : \A j \in kept : j <= i)

\* What check.sh prints as its report: JSON objects, named by what they say.
CheckPayloads == {"passed_true", "passed_false"}

\* json.loads on the texts of the explored behaviours.
json_loads(text) ==
  IF Len(text) = 3 /\ text[1] = "{" /\ text[3] = "}" /\ text[2] \in CheckPayloads
  THEN [error |-> None, value |-> text[2]]
  ELSE [error |-> "JSONDecodeError", value |-> None]

\* _parse_json_payload
parse_json_payload(stdout) ==
  LET text == strip(stdout) IN
  IF text = <<>> THEN None
  ELSE IF json_loads(text).error = None THEN json_loads(text).value
  ELSE None

\* What the script writes to its standard output and standard error.
CheckStdouts ==
  {<<>>, <<"newline">>, <<"{", "passed_true", "}", "newline">>,
   <<"newline", "{", "passed_false", "}">>, <<"{", "passed_true">>,
   <<"low", "Chinese", "ratio">>}

CheckStderrs == {<<>>, <<"partial", "stderr">>, <<"newline", "warning", "newline">>}

CheckExitCodes == {0, 1, 124}

\* The stdout and stderr attributes of a TimeoutExpired: None, bytes or str.
NoOutput == [type |-> "NoneType", text |-> <<>>]

CapturedStdouts ==
  {NoOutput,
   [type |-> "str", text |-> <<"partial", "stdout">>],
   [type |-> "bytes", text |-> <<"partial", "0xff">>],
   [type |-> "bytes", text |-> <<"{", "passed_true", "}", "newline">>],
   [type |-> "str", text |-> <<"{", "passed_false", "}">>]}

CapturedStderrs ==
  {NoOutput,
   [type |-> "str", text |-> <<"partial", "stderr">>],
   [type |-> "bytes", text |-> <<"newline", "warning", "0xff", "newline">>]}

\* bytes.decode("utf-8", errors="replace")
decode(bytes) ==
  [i \in DOMAIN bytes |-> IF bytes[i] = "0xff" THEN "U+FFFD" ELSE bytes[i]]

\* _timeout_output_text
timeout_output_text(value) ==
  IF value.type = "NoneType" THEN <<>>
  ELSE IF value.type = "bytes" THEN decode(value.text)
  ELSE value.text

\* f"check script timed out after {self.timeout_seconds}s"
timeout_error(timeout_seconds) ==
  <<"check", "script", "timed", "out", "after", seconds_text(timeout_seconds), "s">>

\* f"{stderr}\n{timeout_error}".strip()
timeout_stderr(stderr, timeout_seconds) ==
  strip(stderr \o <<"newline">> \o timeout_error(timeout_seconds))

\* Faulty variant of payload_of: the partial output of a timed out script is
\* parsed as well.
payload_of_parses_partial_output(timed_out, stdout) == parse_json_payload(stdout)

\* self._parse_json_payload(stdout) if not timed_out else None
payload_of(timed_out, stdout) ==
  IF ~timed_out THEN parse_json_payload(stdout) ELSE None

\* Faulty variant of passed_of: the report of the script is believed.
passed_of_believes_payload(exit_code, payload) ==
  exit_code = 0 /\ payload # "passed_false"

\* passed=exit_code == 0
passed_of(exit_code, payload) == exit_code = 0

NoCheckResult ==
  [kind |-> None, error |-> None, passed |-> FALSE, exit_code |-> 0,
   stdout |-> <<>>, stderr |-> <<>>, payload |-> None]

CheckRaised(error) == [NoCheckResult EXCEPT !.kind = "raised", !.error = error]

\* CheckRunResult(passed, exit_code, stdout, stderr, payload, ...)
CheckRunResult(exit_code, stdout, stderr, payload) ==
  [kind |-> "returned", error |-> None, passed |-> passed_of(exit_code, payload),
   exit_code |-> exit_code, stdout |-> stdout, stderr |-> stderr,
   payload |-> payload]

\* What the subprocess did, as subprocess.run reports it.
NoProcess ==
  [ended |-> None, returncode |-> 0, stdout |-> NoOutput, stderr |-> NoOutput]

NoCheckFrame ==
  [pc |-> "idle", timeout_seconds |-> DEFAULT_CHECK_TIMEOUT_SECONDS,
   output_path |-> FALSE,     \* an output_path was given
   process |-> NoProcess, result |-> NoCheckResult]

\* ------------------------------------------- SnapshotService (snapshot_service.py)
\* Paths are sequences of names from the root of the file system.  The part of
\* the file system the engine does not write: the sources handed to
\* create_snapshot, a file outside the project and three symbolic links.
ProjectRoot == <<"project">>

ArtifactsRoot == ProjectRoot \o <<"artifacts">>

OutsideSecret == <<"outside", "secret.txt">>

Links ==
  (<<"sources", "link.md">> :> OutsideSecret)
  @@ (<<"sources", "linked", "l.txt">> :> OutsideSecret)
  @@ (<<"project", "escape_link">> :> <<"outside">>)

StaticFiles ==
  (<<"sources", "lecture01.md">> :> "intro")
  @@ (<<"sources", "code", "main.py">> :> "hello")
  @@ (<<"sources", "odd", "ok.txt">> :> "ok")
  @@ (<<"sources", "odd", "we\\ird.txt">> :> "odd")
  @@ (<<"sources", "linked", "a.txt">> :> "a")
  @@ (OutsideSecret :> "secret")
  @@ (<<"project", "notes", "index.md">> :> "index")

StaticDirs ==
  {<<"sources">>, <<"sources", "code">>, <<"sources", "odd">>,
   <<"sources", "linked">>, <<"outside">>, ProjectRoot, ArtifactsRoot,
   ProjectRoot \o <<"notes">>}

\* The names that hold a backslash.
BackslashNames == {"we\\ird.txt", "a\\b.txt"}

\* sorted(): the rank of the names of the files of a source directory.
NameRank ==
  ("a.txt" :> 1) @@ ("l.txt" :> 2) @@ ("main.py" :> 3) @@ ("ok.txt" :> 4)
  @@ ("we\\ird.txt" :> 5)

is_prefix(base, path) ==
  Len(base) <= Len(path) /\ SubSeq(path, 1, Len(base)) = base

\* path.relative_to(base)
relative_to(path, base) == SubSeq(path, Len(base) + 1, Len(path))

\* Path.resolve(): ".." is folded and symbolic links are followed. (The
\* resolved parent is bound once, as the one element of a set.)
RECURSIVE realpath(_)
realpath(parts) ==
  IF parts = <<>> THEN <<>>
  ELSE LET last == parts[Len(parts)]
           joined(head) ==
             IF last = ".." THEN (IF head = <<>> THEN <<>>
                                  ELSE SubSeq(head, 1, Len(head) - 1))
             ELSE IF last = "." THEN head
             ELSE IF Append(head, last) \in DOMAIN Links THEN Links[Append(head, last)]
             ELSE Append(head, last)
       IN CHOOSE path \in {joined(head) :
                             head \in {realpath(SubSeq(parts, 1, Len(parts) - 1))}} : TRUE

\* The sources arguments of the explored behaviours.
SourceLists ==
  {<<>>,
   << <<"sources", "lecture01.md">> >>,
   << <<"sources", "code">> >>,
   << <<"sources", "odd">> >>,
   << <<"sources", "lecture01.md">>, <<"sources", "code">> >>,
   << <<"sources", "code">>, <<"sources", "lecture01.md">> >>,
   << <<"sources", "lecture01.md">>, <<"sources", "odd">> >>,
   << <<"sources", "link.md">> >>,
   << <<"sources", "lecture01.md">>, <<"sources", "link.md">> >>,
   << <<"sources", "linked">> >>,
   << <<"sources", "lecture01.md">>, <<"sources", "linked">> >>,
   << <<"sources", "notfound.md">> >>}

\* The snapshot_id arguments: none, "snap-001" and "../snap-escape".
SnapshotIdArgs == {<<>>, <<"snap-001">>, <<"..", "snap-escape">>}

\* _utc_snapshot_id(): the time of the call, to the second.
utc_snapshot_id == "20260101T000000Z"

\* _safe_name
safe_name(name) ==
  CASE name = "we\\ird.txt" -> "we-ird.txt"
    [] name = "a\\b.txt" -> "a-b.txt"
    [] OTHER -> name

\* f"{idx:03d}_{safe_name}"
dest_name(idx, name) ==
  LET safe == safe_name(name) IN
  CASE idx = 1 -> (CASE safe = "lecture01.md" -> "001_lecture01.md"
                     [] safe = "code" -> "001_code"
                     [] safe = "odd" -> "001_odd"
                     [] safe = "linked" -> "001_linked"
                     [] safe = "secret.txt" -> "001_secret.txt"
                     [] OTHER -> "001_source")
    [] idx = 2 -> (CASE safe = "lecture01.md" -> "002_lecture01.md"
                     [] safe = "code" -> "002_code"
                     [] safe = "odd" -> "002_odd"
                     [] safe = "linked" -> "002_linked"
                     [] safe = "secret.txt" -> "002_secret.txt"
                     [] OTHER -> "002_source")
    [] OTHER -> "003_source"

\* The sha256 of the contents of the explored behaviours, in hex.
file_sha256(content) ==
  CASE content = "intro" -> "sha_a1"
    [] content = "hello" -> "sha_b2"
    [] content = "ok" -> "sha_c3"
    [] content = "odd" -> "sha_d4"
    [] content = "a" -> "sha_e5"
    [] content = "secret" -> "sha_f6"
    [] content = "index" -> "sha_07"
    [] content = "mutated" -> "sha_18"
    [] OTHER -> "sha_29"

\* The files and directories of the file system, given the files the engine
\* has written under the project (project_files) and the snapshot roots.
all_files(project_files) == StaticFiles @@ project_files

exists(project_files, dirs, path) ==
  \/ path \in DOMAIN all_files(project_files)
  \/ path \in StaticDirs \cup dirs
  \/ \E file \in DOMAIN project_files : is_prefix(path, file)

is_file(project_files, path) == path \in DOMAIN all_files(project_files)

\* _assert_no_symlink(source): the error raised, None when there is none.
assert_no_symlink(source) ==
  IF source \in DOMAIN Links THEN "ValueError"
  ELSE IF source \in DOMAIN StaticFiles THEN None
  ELSE IF \E link \in DOMAIN Links : is_prefix(source, link) /\ link # source
  THEN "ValueError"
  ELSE None

\* The files below a source directory, in sorted order.
RECURSIVE sorted_names(_)
sorted_names(names) ==
  IF names = {} THEN <<>>
  ELSE LET first == CHOOSE n \in names : \A m \in names : NameRank[n] <= NameRank[m]
       IN <<first>> \o sorted_names(names \ {first})

\* shutil.copy2 / shutil.copytree(source, dest_path): the files written, in
\* the order _collect_hashes meets them.
copied_files(source, dest_path) ==
  IF source \in DOMAIN StaticFiles
  THEN << [path |-> dest_path, content |-> StaticFiles[source]] >>
  ELSE LET names == {file[Len(file)] : file \in
                       {f \in DOMAIN StaticFiles : is_prefix(source, f) /\ f # source}}
           order == sorted_names(names)
       IN [i \in DOMAIN order |->
             [path |-> Append(dest_path, order[i]),
              content |-> StaticFiles[Append(source, order[i])]]]

\* A relative path as a string: its segments between the "/"; a leading "/"
\* is the segment "/".  Path(relative_path).parts drops the segments "." and
\* "" and keeps "..".
path_parts(segments) ==
  SelectSeq(segments, LAMBDA segment : segment \notin {".", ""})

is_absolute(parts) == parts # <<>> /\ parts[1] = "/"

NoPath == [ok |-> FALSE, path |-> <<>>]

\* Faulty variant of resolve_within_root: the candidate is not resolved
\* before it is compared with the root.
resolve_within_root_unresolved(root, segments) ==
  LET rel == path_parts(segments) IN
  IF \E i \in DOMAIN segments : segments[i] \in BackslashNames THEN NoPath
  ELSE IF is_absolute(rel) THEN NoPath
  ELSE IF \E i \in DOMAIN rel : rel[i] \in {"", ".", ".."} THEN NoPath
  ELSE [ok |-> TRUE, path |-> realpath(root \o rel)]

\* resolve_within_root (path_utils.py): None, or the resolved path.
resolve_within_root(root, segments) ==
  LET rel == path_parts(segments)
      candidate == realpath(root \o rel)
  IN IF \E i \in DOMAIN segments : segments[i] \in BackslashNames THEN NoPath
     ELSE IF is_absolute(rel) THEN NoPath
     ELSE IF \E i \in DOMAIN rel : rel[i] \in {"", ".", ".."} THEN NoPath
     ELSE IF ~is_prefix(root, candidate) THEN NoPath
     ELSE [ok |-> TRUE, path |-> candidate]

\* artifacts/source_hashes.json: absent, not a JSON object with a "files"
\* object, or the entries of "files" in the order of the file.
NoHashes == [kind |-> "absent", snapshot_id |-> "unknown", files |-> <<>>]

InvalidHashes == [NoHashes EXCEPT !.kind = "invalid"]

\* artifacts/source_index.json
NoIndex == [kind |-> "absent", snapshot_id |-> "unknown", sources |-> <<>>]

NoSnapshotResult ==
  [kind |-> None, error |-> None, snapshot_id |-> "unknown", source_count |-> 0,
   file_count |-> 0, valid |-> FALSE, checked_files |-> 0, mismatches |-> <<>>]

SnapshotRaised(error) ==
  [NoSnapshotResult EXCEPT !.kind = "raised", !.error = error]

\* SnapshotResult(snapshot_id, ..., source_count, file_count)
SnapshotResult(snapshot_id, source_count, file_count) ==
  [NoSnapshotResult EXCEPT !.kind = "returned", !.snapshot_id = snapshot_id,
                           !.source_count = source_count, !.file_count = file_count]

\* SnapshotVerificationResult(snapshot_id, valid, checked_files, mismatches)
SnapshotVerificationResult(snapshot_id, checked_files, mismatches) ==
  [NoSnapshotResult EXCEPT !.kind = "returned", !.snapshot_id = snapshot_id,
                           !.valid = Len(mismatches) = 0,
                           !.checked_files = checked_files,
                           !.mismatches = mismatches]

RECURSIVE flatten(_)
flatten(seqs) ==
  IF seqs = <<>> THEN <<>> ELSE seqs[1] \o flatten(SubSeq(seqs, 2, Len(seqs)))

\* create_snapshot on the project files, snapshot roots, manifest and index of
\* disk: what it raises or returns, and the files it leaves.
create_snapshot(disk, sources, snapshot_id) ==
  LET resolved_sources == [i \in DOMAIN sources |-> realpath(sources[i])]
      source_error(i) ==
        IF ~exists(disk.files, disk.roots, resolved_sources[i])
        THEN "FileNotFoundError"
        ELSE assert_no_symlink(resolved_sources[i])
      rejected == {i \in DOMAIN sources : source_error(i) # None}
      snapshot_key == IF snapshot_id # <<>> THEN snapshot_id[1] ELSE utc_snapshot_id
      snapshot_root == ArtifactsRoot \o <<"snapshots", snapshot_key>>
      copies == [idx \in DOMAIN sources |->
                   copied_files(resolved_sources[idx],
                                Append(snapshot_root,
                                       dest_name(idx, resolved_sources[idx][Len(resolved_sources[idx])])))]
      copied == flatten(copies)
      raised(error) == [disk |-> disk, result |-> SnapshotRaised(error)]
  IN IF sources = <<>> THEN raised("ValueError")
     ELSE IF rejected # {}
     THEN raised(source_error(CHOOSE i \in rejected : \A j \in rejected : i <= j))
     ELSE IF snapshot_id # <<>> /\ ~single_path_component(snapshot_id)
     THEN raised("ValueError")
     ELSE IF snapshot_root \in disk.roots THEN raised("FileExistsError")
     ELSE [disk |->
             [files |-> [path \in {copied[i].path : i \in DOMAIN copied} |->
                           (CHOOSE c \in {copied[i] : i \in DOMAIN copied} :
                              c.path = path).content] @@ disk.files,
              roots |-> disk.roots \cup {snapshot_root},
              hashes |->
                [kind |-> "dict", snapshot_id |-> snapshot_key,
                 files |-> [i \in DOMAIN copied |->
                              [key |-> relative_to(copied[i].path, ProjectRoot),
                               hash |-> file_sha256(copied[i].content)]]],
              index |->
                [kind |-> "dict", snapshot_id |-> snapshot_key,
                 sources |-> [idx \in DOMAIN sources |->
                                [source_path |-> resolved_sources[idx],
                                 file_count |-> Len(copies[idx])]]]],
           result |-> SnapshotResult(snapshot_key, Len(sources), Len(copied))]

\* One iteration of the loop of verify_snapshot_hashes (lines 222-256): the
\* paths whose existence is tested and whose content is read, the error
\* raised and the mismatch appended, if any.
verify_entry(disk, entry) ==
  LET checked == [tested |-> {}, hashed |-> {}, error |-> None, reason |-> None,
                  path |-> entry.key, expected |-> entry.hash, actual |-> ""]
      verified(file_path) ==
        LET touched == [key |-> entry.key, path |-> file_path.path] IN
        IF ~file_path.ok THEN [checked EXCEPT !.reason = "invalid_path"]
        ELSE IF ~exists(disk.files, disk.roots, file_path.path)
        THEN [checked EXCEPT !.tested = {touched}, !.reason = "missing",
                             !.path = file_path.path]
        ELSE IF ~is_file(disk.files, file_path.path)
        THEN [checked EXCEPT !.tested = {touched}, !.hashed = {touched},
                             !.error = "IsADirectoryError"]
        ELSE LET actual_hash == file_sha256(all_files(disk.files)[file_path.path]) IN
             [checked EXCEPT !.tested = {touched}, !.hashed = {touched},
                             !.path = file_path.path, !.actual = actual_hash,
                             !.reason = IF actual_hash # entry.hash
                                        THEN "hash_mismatch" ELSE None]
  IN CHOOSE result \in {verified(file_path) :
                          file_path \in {resolve_within_root(ProjectRoot, entry.key)}} : TRUE

Mismatch(path, reason, expected, actual) ==
  [path |-> path, reason |-> reason, expected |-> expected, actual |-> actual]

\* verify_snapshot_hashes on disk: what it raises or returns, and the paths
\* whose existence it tested and whose content it read.
verify_snapshot_hashes(disk) ==
  LET hashes_path == ArtifactsRoot \o <<"source_hashes.json">>
      expected_files == disk.hashes.files
      checks == [i \in DOMAIN expected_files |->
                   verify_entry(disk, expected_files[i])]
      failing == {i \in DOMAIN checks : checks[i].error # None}
      last == IF failing = {} THEN Len(checks)
              ELSE CHOOSE i \in failing : \A j \in failing : i <= j
      done == SubSeq(checks, 1, last)
      mismatches == SelectSeq(done, LAMBDA c : c.reason # None)
      log == [tested |-> UNION {done[i].tested : i \in DOMAIN done},
              hashed |-> UNION {done[i].hashed : i \in DOMAIN done}]
      metadata(reason) ==
        [log |-> [tested |-> {}, hashed |-> {}],
         result |-> SnapshotVerificationResult(
                      "unknown", 0, << Mismatch(hashes_path, reason, "", "") >>)]
  IN IF disk.hashes.kind = "absent" THEN metadata("missing_metadata")
     ELSE IF disk.hashes.kind = "invalid" THEN metadata("invalid_metadata")
     ELSE IF failing # {}
     THEN [log |-> log, result |-> SnapshotRaised(checks[last].error)]
     ELSE [log |-> log,
           result |-> SnapshotVerificationResult(
                        disk.hashes.snapshot_id, Len(expected_files),
                        [i \in DOMAIN mismatches |->
                           Mismatch(mismatches[i].path, mismatches[i].reason,
                                    mismatches[i].expected, mismatches[i].actual)])]

\* The source_hashes.json files a third party leaves in the explored
\* behaviours.
CraftedEntries ==
  [outside |-> [key |-> <<"..", "outside.txt">>, hash |-> "deadbeef"],
   absolute |-> [key |-> <<"/", "outside", "secret.txt">>, hash |-> "sha_f6"],
   link |-> [key |-> <<"escape_link", "secret.txt">>, hash |-> "sha_f6"],
   inside |-> [key |-> <<"notes", "index.md">>, hash |-> "sha_07"],
   dotted |-> [key |-> <<"notes", ".", "index.md">>, hash |-> "sha_07"],
   back |-> [key |-> <<"notes", "..", "notes", "index.md">>, hash |-> "sha_07"],
   stale |-> [key |-> <<"notes", "index.md">>, hash |-> "deadbeef"],
   gone |-> [key |-> <<"notes", "gone.md">>, hash |-> "deadbeef"],
   directory |-> [key |-> <<"notes">>, hash |-> "deadbeef"],
   backslash |-> [key |-> <<"a\\b.txt">>, hash |-> "deadbeef"]]

\* One or two entries, or none.
CraftedFiles ==
  LET entries == {CraftedEntries[name] : name \in DOMAIN CraftedEntries} IN
  {<<>>} \cup {<<e>> : e \in entries}
  \cup {pair \in {<<e1, e2>> : e1 \in entries, e2 \in entries} :
          pair[1].key # pair[2].key}

CraftedHashes ==
  {InvalidHashes}
  \cup {[kind |-> "dict", snapshot_id |-> "snap-malicious", files |-> files] :
          files \in CraftedFiles}

\* The project has an empty artifacts/ directory.
NoDisk ==
  [files |-> <<>>,        \* the files under artifacts/snapshots
   roots |-> {},          \* the snapshot directories
   hashes |-> NoHashes,   \* artifacts/source_hashes.json
   index |-> NoIndex]     \* artifacts/source_index.json

NoSnapshotFrame ==
  [pc |-> "idle", op |-> None, sources |-> <<>>, snapshot_id |-> <<>>,
   entry |-> NoDisk,  \* the files the call found
   result |-> NoSnapshotResult,
   tested |-> {},     \* the manifest entries whose path the call tested for
                      \* existence, with the path
   hashed |-> {}]     \* the manifest entries whose file the call read

\* ------------------------------------------------- DiffService (diff_service.py)
\* The working root of the notes and what lies next to it.
NotesRoot == <<"workspace", "notes">>

Lectures == NotesRoot \o <<"lectures">>

OutsideFiles ==
  (<<"workspace", "outside.txt">> :> "outside")
  @@ (<<"workspace", "shared", "x.md">> :> "shared")

File(content) == [kind |-> "file", content |-> content, target |-> <<>>]

Link(target) == [kind |-> "link", content |-> None, target |-> target]

\* What can be found below the working root in the explored behaviours:
\* regular files, links to a file and to a directory outside the root, a
\* link to a file of the root and a link to nothing.
NotesEntries ==
  (Append(Lectures, "safe.md") :> {File("safe"), File("edited")})
  @@ (Append(Lectures, "b.md") :> {File("old-b")})
  @@ (Append(Lectures, "outside_link.md") :> {Link(<<"workspace", "outside.txt">>)})
  @@ (Append(Lectures, "alias.md") :> {Link(Append(Lectures, "safe.md"))})
  @@ (Append(Lectures, "dangling.md") :> {Link(<<"workspace", "missing.txt">>)})
  @@ (Append(NotesRoot, "shared") :> {Link(<<"workspace", "shared">>)})

\* The path an entry of the tree stands for once a link is followed.
link_target(tree, path) ==
  IF tree[path].kind = "link" THEN tree[path].target ELSE path

\* The regular files of the file system, with their contents.
regular_files(tree) ==
  [path \in {q \in DOMAIN tree : tree[q].kind = "file"} |-> tree[path].content]
  @@ OutsideFiles

\* path.is_file(): links are followed.
path_is_file(tree, path) ==
  link_target(tree, path) \in DOMAIN regular_files(tree)

\* root.rglob("*"): every entry below the root; a link to a directory is an
\* entry, what lies behind it is not.
rglob(tree) == DOMAIN tree

\* capture_state on the tree: the mapping returned and the files read.
capture_state(tree) ==
  LET captured == {path \in rglob(tree) : path_is_file(tree, path)} IN
  [state |-> [rel \in {relative_to(path, NotesRoot) : path \in captured} |->
                regular_files(tree)[link_target(tree, NotesRoot \o rel)]],
   reads |-> {link_target(tree, path) : path \in captured}]

NoDiffFrame == [pc |-> "idle", state |-> <<>>, reads |-> {}]

\* ---------------------------------- RunHistoryService (run_history_service.py)
RunsDir == ProjectRoot \o <<"runs">>

\* The run directories, in the order of sorted().
RunNames == <<"run_patch", "secret_round", "wf_mal", "wf_patch">>

\* The files below the project that the explored behaviours never rewrite.
PatchFiles ==
  (ProjectRoot \o <<"secret", "changes.patch">> :> "SECRET")
  @@ (RunsDir \o <<"secret_round", "changes.patch">> :> "LEAKED")
  @@ (RunsDir \o <<"run_patch", "changes.patch">> :> "diff-y")
  @@ (RunsDir \o <<"wf_patch", "round1", "changes.patch">> :> "diff-x")
  @@ (RunsDir \o <<"wf_patch", "nested", "round1", "changes.patch">> :> "diff-n")

\* A JSON file of a run directory: absent, not JSON, or an object with its
\* "status", "success" and "rounds" (the round_name of each item).
NoDocument == [kind |-> "absent", status |-> None, success |-> FALSE, rounds |-> <<>>]

InvalidDocument == [NoDocument EXCEPT !.kind = "invalid"]

WorkflowDocument(status, rounds) ==
  [kind |-> "dict", status |-> status, success |-> FALSE, rounds |-> rounds]

ManifestDocument(success) ==
  [kind |-> "dict", status |-> None, success |-> success, rounds |-> <<>>]

\* round_name values as strings: the segments between the "/".
Round1 == <<"round1">>

WorkflowDocuments ==
  {NoDocument, InvalidDocument,
   WorkflowDocument("succeeded", <<Round1>>),
   WorkflowDocument("succeeded", << <<"..", "secret">> >>),
   WorkflowDocument("paused", <<Round1, <<"..", "secret_round">> >>),
   WorkflowDocument("failed_recoverable", << <<"..", "secret_round">>, Round1>>),
   WorkflowDocument("succeeded", << <<"nested", "round1">> >>),
   WorkflowDocument(None, <<>>)}

\* The runs whose workflow_result.json is rewritten.
WorkflowRuns == {"wf_mal", "wf_patch"}

\* run_manifest.json of each run directory.
RunManifests ==
  [name \in {RunNames[i] : i \in DOMAIN RunNames} |->
     IF name = "run_patch" THEN ManifestDocument(TRUE) ELSE NoDocument]

\* The run_id and round_name arguments, as strings.
HistoryRunIds ==
  {<<"wf_patch">>, <<"wf_mal">>, <<"run_patch">>, <<"..", "secret">>,
   <<"wf_patch", "round1">>, <<"no_such_run">>, <<"">>}

RoundNameArgs ==
  {<<>>, Round1, <<"..", "secret_round">>, <<"nested", "round1">>, <<"..">>,
   <<"round9">>}

NoComponent == [ok |-> FALSE, component |-> <<>>]

\* Faulty variant of validate_component: a path of several components is
\* let through.
validate_component_nested(value) ==
  LET parts == path_parts(value) IN
  IF value = <<>> \/ value = <<"">> THEN NoComponent
  ELSE IF \E i \in DOMAIN value : value[i] \in BackslashNames THEN NoComponent
  ELSE IF Len(parts) = 0 THEN NoComponent
  ELSE IF parts[1] \in {".", ".."} THEN NoComponent
  ELSE [ok |-> TRUE, component |-> parts]

\* _validate_component: None, or the component.
validate_component(value) ==
  LET parts == path_parts(value) IN
  IF value = <<>> \/ value = <<"">> THEN NoComponent
  ELSE IF \E i \in DOMAIN value : value[i] \in BackslashNames THEN NoComponent
  ELSE IF Len(parts) # 1 THEN NoComponent
  ELSE IF parts[1] \in {".", ".."} THEN NoComponent
  ELSE [ok |-> TRUE, component |-> parts]

\* _is_within
is_within(candidate, base_dir) == is_prefix(base_dir, candidate)

\* The files and directories below the project, given workflow_result.json
\* of each run (documents).
history_files(documents) ==
  DOMAIN PatchFiles
  \cup {RunsDir \o <<name, "workflow_result.json">> :
          name \in {n \in DOMAIN documents : documents[n].kind # "absent"}}
  \cup {RunsDir \o <<name, "run_manifest.json">> :
          name \in {n \in DOMAIN RunManifests : RunManifests[n].kind # "absent"}}

history_dirs ==
  {RunsDir \o <<RunNames[i]>> : i \in DOMAIN RunNames}
  \cup UNION {{SubSeq(file, 1, n) : n \in 1..(Len(file) - 1)} : file \in DOMAIN PatchFiles}

\* _resolve_child_dir
resolve_child_dir(base_dir, child_name) ==
  LET candidate == realpath(base_dir \o child_name) IN
  IF ~is_within(candidate, base_dir) THEN NoPath
  ELSE IF candidate \notin history_dirs THEN NoPath
  ELSE [ok |-> TRUE, path |-> candidate]

\* _resolve_child_file
resolve_child_file(documents, base_dir, parts) ==
  LET candidate == realpath(base_dir \o parts) IN
  IF ~is_within(candidate, base_dir) THEN NoPath
  ELSE IF candidate \notin history_files(documents) THEN NoPath
  ELSE [ok |-> TRUE, path |-> candidate]

NoHistoryResult ==
  [kind |-> None, error |-> None,
   found |-> FALSE,     \* a path (or a text) is returned, not None
   path |-> <<>>, text |-> None, records |-> <<>>]

HistoryRaised(error) == [NoHistoryResult EXCEPT !.kind = "raised", !.error = error]

PatchPath(file_path) ==
  [NoHistoryResult EXCEPT !.kind = "returned", !.found = file_path.ok,
                          !.path = file_path.path]

\* The loop over reversed(rounds) (lines 139-151): the first candidate that
\* resolves, from the last item down to the first.
RECURSIVE resolve_rounds(_, _, _)
resolve_rounds(documents, run_directory, rounds) ==
  IF rounds = <<>> THEN NoPath
  ELSE LET round_component == validate_component(rounds[Len(rounds)])
           candidate == resolve_child_file(documents, run_directory,
                                           round_component.component \o <<"changes.patch">>)
       IN IF round_component.ok /\ candidate.ok THEN candidate
          ELSE resolve_rounds(documents, run_directory, SubSeq(rounds, 1, Len(rounds) - 1))

\* resolve_patch_path: what it raises or returns, and the files it reads.
resolve_patch_path(documents, run_id, round_name) ==
  LET run_component == validate_component(run_id)
      run_directory == resolve_child_dir(RunsDir, run_component.component)
      round_component == validate_component(round_name)
      direct_patch == resolve_child_file(documents, run_directory.path, <<"changes.patch">>)
      workflow_path == resolve_child_file(documents, run_directory.path,
                                          <<"workflow_result.json">>)
      payload == documents[run_component.component[1]]
      none == [reads |-> {}, result |-> PatchPath(NoPath)]
  IN IF ~run_component.ok THEN none
     ELSE IF ~run_directory.ok THEN none
     ELSE IF round_name # <<>>
     THEN IF ~round_component.ok THEN none
          ELSE [reads |-> {},
                result |-> PatchPath(resolve_child_file(
                             documents, run_directory.path,
                             round_component.component \o <<"changes.patch">>))]
     ELSE IF direct_patch.ok THEN [reads |-> {}, result |-> PatchPath(direct_patch)]
     ELSE IF ~workflow_path.ok THEN none
     ELSE IF payload.kind = "invalid"
     THEN [reads |-> {workflow_path.path}, result |-> HistoryRaised("JSONDecodeError")]
     ELSE [reads |-> {workflow_path.path},
           result |-> PatchPath(resolve_rounds(documents, run_directory.path, payload.rounds))]

\* read_patch
read_patch(documents, run_id, round_name) ==
  LET resolved == resolve_patch_path(documents, run_id, round_name) IN
  IF resolved.result.kind = "raised" \/ ~resolved.result.found THEN resolved
  ELSE [reads |-> resolved.reads \cup {resolved.result.path},
        result |-> [resolved.result EXCEPT !.text = PatchFiles[resolved.result.path]]]

RunRecord(run_id, run_type, status) ==
  [run_id |-> run_id, run_type |-> run_type, status |-> status]

\* The record list_runs appends for a run directory (lines 38-86), or the
\* error _read_json raises there.
run_record(documents, name) ==
  LET workflow == IF name \in DOMAIN documents THEN documents[name] ELSE NoDocument
      manifest == RunManifests[name]
  IN IF workflow.kind # "absent"
     THEN IF workflow.kind = "invalid"
          THEN [error |-> "JSONDecodeError", record |-> RunRecord(name, None, None)]
          ELSE [error |-> None,
                record |-> RunRecord(name, "workflow",
                                     IF workflow.status = None THEN "unknown"
                                     ELSE workflow.status)]
     ELSE IF manifest.kind # "absent"
     THEN [error |-> None,
           record |-> RunRecord(name, "codex",
                                IF manifest.success THEN "succeeded" ELSE "failed")]
     ELSE [error |-> None, record |-> RunRecord(name, "unknown", "unknown")]

\* list_runs: the records, newest (largest run_id) first, or the first error.
list_runs(documents) ==
  LET made == [i \in DOMAIN RunNames |-> run_record(documents, RunNames[i])]
      failing == {i \in DOMAIN made : made[i].error # None}
  IN IF failing # {}
     THEN [reads |-> {},
           result |-> HistoryRaised(
                        made[CHOOSE i \in failing : \A j \in failing : i <= j].error)]
     ELSE [reads |-> {},
           result |-> [NoHistoryResult EXCEPT
                         !.kind = "returned",
                         !.records = [i \in DOMAIN made |->
                                        made[Len(made) + 1 - i].record]]]

NoHistoryFrame ==
  [pc |-> "idle", op |-> None, run_id |-> <<>>, round_name |-> <<>>,
   result |-> NoHistoryResult,
   reads |-> {}]      \* the files whose content the call read

\* ------------------------------------------------------------- the state
VARIABLES
  round_status,     \* state/round_status.json
  session,          \* state/session.json: status and current_run_id
  corrupt,          \* the state documents that hold invalid JSON
  run_dirs,         \* the directories under runs/
  pc,               \* where the invocation in flight stands
  call,             \* the arguments of the invocation and the state it found
  cur,              \* index in RUN_ORDER of the round of the loop
  workflow_status,  \* run()'s local workflow_status
  round_results,    \* run()'s local round_results
  trace,            \* the collaborator calls of the invocation, per round
  outcome,          \* what the caller got: a WorkflowRunResult or an exception
  paused_at,        \* the round at which the last returned run paused
  finished_past,    \* the paused round after which the last returned resume()
                    \* ran every remaining round through final
  events,           \* calls after the first, non-default arguments and
                    \* non-nominal outcomes so far
  executor,         \* CodexExecutor: the directories and the manifest on disk,
                    \* and the frame of the run() in flight
  store,            \* _write_json: the files on disk and the frame of the
                    \* write in flight
  checker,          \* CheckRunner: the frame of the run() in flight and the
                    \* result file written last
  snapshots,        \* SnapshotService: the files under artifacts/ and the
                    \* call that ended last
  differ,           \* DiffService: the notes tree and the capture_state
                    \* that ended last
  history,          \* RunHistoryService: workflow_result.json of the run
                    \* directories and the call that ended last
  resumer,          \* _resolve_resume_from_round: the round_status.json it
                    \* is given and the round it returned
  timer             \* focuslog: TimerService, its worker thread and its
                    \* PomodoroRunner

workflow_vars ==
  <<round_status, session, corrupt, run_dirs, pc, call, cur, workflow_status,
    round_results, trace, outcome, paused_at, finished_past, events>>

tool_vars == <<checker, snapshots, differ, history, resumer, timer>>

vars == <<workflow_vars, executor, store, tool_vars>>

\* No CodexExecutor.run is in flight: its locals hold nothing.
NoFrame ==
  [pc |-> "idle", request |-> NoRequest, run_id |-> <<>>, attempts_log |-> <<>>,
   final_exit_code |-> 0, final_error |-> None,
   completed |-> <<>>,    \* the CompletedProcess of each attempt so far
   commands |-> <<>>,     \* the subprocesses started so far
   result |-> NoCodexResult]

\* The project exists with its runs/ directory and no run.
InitExecutor ==
  executor = [frame |-> NoFrame,
              dirs |-> {<<"runs">>},     \* directories, as resolved paths
              manifest |-> NoManifest,   \* the run_manifest.json written last
              runs |-> 0]                \* calls of CodexExecutor.run so far

\* The state documents exist after ProjectService.create_project; a
\* workflow_result.json does not exist before it is first written.
InitStore ==
  store = [disk |-> [path \in {<<"session", "json">>, <<"round_status", "json">>} |->
                       dump(1)],        \* the text of each file that exists
           pc |-> "idle",
           call |-> NoWrite,             \* the arguments of the write and what a
                                         \* read of the path gave before it
           writes |-> 0]                 \* calls of _write_json so far

\* No verification has run: no result file is written.
InitCheck ==
  checker = [frame |-> NoCheckFrame,
             output |-> NoCheckResult,   \* the result file written last
             calls |-> 0]                \* calls of CheckRunner.run so far

\* The project exists with an empty artifacts/ directory.
InitSnapshot ==
  snapshots = [disk |-> NoDisk,
               tampered |-> {},   \* the copied files changed since the last snapshot
               frame |-> NoSnapshotFrame]

\* The notes hold one lecture.
InitDiff ==
  differ = [tree |-> (Append(Lectures, "safe.md") :> File("safe")),
            frame |-> NoDiffFrame]

\* Two workflow runs are on disk, one of them with a crafted
\* workflow_result.json.
InitHistory ==
  history = [documents |-> [name \in WorkflowRuns |->
                              IF name = "wf_patch"
                              THEN WorkflowDocument("succeeded", <<Round1>>)
                              ELSE WorkflowDocument("succeeded", << <<"..", "secret">> >>)],
             frame |-> NoHistoryFrame]

persisted == <<round_status, session, corrupt, run_dirs>>

NoCall ==
  [op |-> None, from_round |-> None, to_round |-> None, policy |-> DefaultPolicy,
   workflow_id |-> NullRunId, entry_round_status |-> default_round_status_payload,
   entry_session |-> default_session_payload, entry_corrupt |-> {},
   entry_paused_at |-> None, entry_finished_past |-> None]

NoOutcome == [kind |-> None, error |-> None, status |-> None, rounds |-> <<>>]

Raised(error) == [kind |-> "raised", error |-> error, status |-> None, rounds |-> <<>>]

\* WorkflowRunResult(status, rounds)
WorkflowRunResult(status, rounds) ==
  [kind |-> "returned", error |-> None, status |-> status, rounds |-> rounds]

InFlight == pc \in {"begin_round", "execute_round", "finalize"}

\* The state after ProjectService.create_project.
InitWorkflow ==
  /\ round_status = default_round_status_payload
  /\ session = default_session_payload
  /\ corrupt = {}
  /\ run_dirs = {}
  /\ pc = "idle"
  /\ call = NoCall
  /\ cur = 0
  /\ workflow_status = None
  /\ round_results = <<>>
  /\ trace = <<>>
  /\ outcome = NoOutcome
  /\ paused_at = None
  /\ finished_past = None
  /\ events = 0

\* What the state of a component is in a specification that does not explore
\* it.
Apart == "apart"

\* Spec starts after ProjectService.create_project. The orchestrator sees its
\* collaborators through their outcomes (RoundScripts); their own state is
\* explored in the specifications of the components and stays Apart here.
Init ==
  /\ InitWorkflow
  /\ executor = Apart
  /\ store = Apart
  /\ checker = Apart
  /\ snapshots = Apart
  /\ differ = Apart
  /\ history = Apart
  /\ resumer = Apart
  /\ timer = Apart

\* The specifications of the components start with every component
\* constructed on a new project.
InitComponents ==
  /\ InitWorkflow
  /\ InitExecutor
  /\ InitStore
  /\ InitCheck
  /\ InitSnapshot
  /\ InitDiff
  /\ InitHistory
  /\ resumer = Apart
  /\ timer = Apart

\* workflow_run_id or _default_workflow_run_id(): the default is an id no
\* directory has; an explicit id is that one or one of the existing ones.
FreshRunId == Cardinality(run_dirs \cap RunIds) + 1

WorkflowIds == run_dirs \cup ({FreshRunId} \cap RunIds) \cup {EscapeRunId}

NewCall(op, from_round, to_round, p, workflow_id) ==
  [op |-> op, from_round |-> from_round, to_round |-> to_round, policy |-> p,
   workflow_id |-> workflow_id, entry_round_status |-> round_status,
   entry_session |-> session, entry_corrupt |-> corrupt,
   entry_paused_at |-> paused_at, entry_finished_past |-> finished_past]

\* A call after the first, a non-default argument and a non-nominal outcome
\* each count as one event.
CallCost == IF run_dirs = {} THEN 0 ELSE 1

IdCost(workflow_id) == IF workflow_id = EscapeRunId THEN 1 ELSE 0

Charge(cost) ==
  /\ events + cost <= MaxEvents
  /\ events' = events + cost

\* Faulty variant of Reject: the session is written as running before the
\* arguments are checked.
RejectAfterSessionWrite(c, error) ==
  /\ Charge(CallCost + IdCost(c.workflow_id))
  /\ call' = c
  /\ pc' = "raised"
  /\ outcome' = Raised(error)
  /\ session' = [status |-> "running", current_run_id |-> c.workflow_id]
  /\ UNCHANGED <<round_status, corrupt, cur, workflow_status,
                 round_results, trace, paused_at, finished_past>>

\* The exception a call ends with before its loop starts; the arguments it
\* has not read by then stay at their defaults in the record of the call.
Reject(c, error) ==
  /\ Charge(CallCost + IdCost(c.workflow_id))
  /\ call' = c
  /\ pc' = "raised"
  /\ outcome' = Raised(error)
  /\ UNCHANGED <<round_status, session, corrupt, cur, workflow_status,
                 round_results, trace, paused_at, finished_past>>

\* Faulty variant of EnterRun: the session payload is set to running but not
\* written before the loop.
EnterRunSessionUnwritten(op, from_round, to_round, workflow_id) ==
  IF workflow_id \in run_dirs
  THEN \* workflow_dir.mkdir(parents=True, exist_ok=False)
       /\ run_dirs' = run_dirs
       /\ Reject(NewCall(op, from_round, None, DefaultPolicy, workflow_id),
                 "FileExistsError")
  ELSE /\ run_dirs' = run_dirs \cup {workflow_id}
       /\ IF select_rounds_raises(from_round, to_round)
          THEN Reject(NewCall(op, from_round, to_round, DefaultPolicy, workflow_id),
                      "ValueError")
          ELSE IF corrupt # {}
          THEN \* _read_json: json.load raises on invalid JSON
               Reject(NewCall(op, from_round, to_round, DefaultPolicy, workflow_id),
                      "JSONDecodeError")
          ELSE /\ events + CallCost + IdCost(workflow_id) <= MaxEvents
               /\ \E p \in PoliciesWithin[MaxEvents - events - CallCost - IdCost(workflow_id)] :
                 /\ Charge(CallCost + IdCost(workflow_id) + PolicyCost(p))
                 /\ call' = NewCall(op, from_round, to_round, p, workflow_id)
                 /\ pc' = "begin_round"
                 /\ cur' = RoundIndex(from_round)
                 /\ workflow_status' = "succeeded"
                 /\ round_results' = <<>>
                 /\ trace' = <<>>
                 /\ outcome' = NoOutcome
                 /\ paused_at' = None
                 /\ finished_past' = None
                 /\ UNCHANGED <<round_status, session, corrupt>>

\* run() from its first line to the session write before the loop
\* (lines 116-138).
EnterRun(op, from_round, to_round, workflow_id) ==
  IF workflow_id \in run_dirs
  THEN \* workflow_dir.mkdir(parents=True, exist_ok=False)
       /\ run_dirs' = run_dirs
       /\ Reject(NewCall(op, from_round, None, DefaultPolicy, workflow_id),
                 "FileExistsError")
  ELSE /\ run_dirs' = run_dirs \cup {workflow_id}
       /\ IF select_rounds_raises(from_round, to_round)
          THEN Reject(NewCall(op, from_round, to_round, DefaultPolicy, workflow_id),
                      "ValueError")
          ELSE IF corrupt # {}
          THEN \* _read_json: json.load raises on invalid JSON
               Reject(NewCall(op, from_round, to_round, DefaultPolicy, workflow_id),
                      "JSONDecodeError")
          ELSE /\ events + CallCost + IdCost(workflow_id) <= MaxEvents
               /\ \E p \in PoliciesWithin[MaxEvents - events - CallCost - IdCost(workflow_id)] :
                 /\ Charge(CallCost + IdCost(workflow_id) + PolicyCost(p))
                 /\ call' = NewCall(op, from_round, to_round, p, workflow_id)
                 /\ session' = [status |-> "running", current_run_id |-> workflow_id]
                 /\ pc' = "begin_round"
                 /\ cur' = RoundIndex(from_round)
                 /\ workflow_status' = "succeeded"
                 /\ round_results' = <<>>
                 /\ trace' = <<>>
                 /\ outcome' = NoOutcome
                 /\ paused_at' = None
                 /\ finished_past' = None
                 /\ UNCHANGED <<round_status, corrupt>>

\* WorkflowOrchestrator.run(from_round, to_round, ...)
Run ==
  /\ pc = "idle"
  /\ \E workflow_id \in WorkflowIds :
       IF workflow_id \in run_dirs
       THEN EnterRun("run", None, None, workflow_id)
       ELSE \E from_round \in RoundNames, to_round \in RoundNames :
              EnterRun("run", from_round, to_round, workflow_id)
  /\ UNCHANGED <<executor, store, tool_vars>>

\* WorkflowOrchestrator.resume(to_round, ...)
Resume ==
  /\ pc = "idle"
  /\ IF "round_status" \in corrupt
     THEN /\ run_dirs' = run_dirs
          /\ Reject(NewCall("resume", None, None, DefaultPolicy, NullRunId),
                    "JSONDecodeError")
     ELSE LET from_round == resolve_resume_from_round(round_status) IN
          \E workflow_id \in WorkflowIds :
            IF from_round = None
            THEN IF workflow_id \in run_dirs
                 THEN /\ run_dirs' = run_dirs
                      /\ Reject(NewCall("resume", None, None, DefaultPolicy, workflow_id),
                                "FileExistsError")
                 ELSE /\ Charge(CallCost + IdCost(workflow_id))
                      /\ call' = NewCall("resume", None, None, DefaultPolicy, workflow_id)
                      /\ run_dirs' = run_dirs \cup {workflow_id}
                      /\ pc' = "returned"
                      /\ outcome' = WorkflowRunResult("succeeded", <<>>)
                      /\ UNCHANGED <<round_status, session, corrupt, cur,
                                     workflow_status, round_results, trace,
                                     paused_at, finished_past>>
            ELSE IF workflow_id \in run_dirs
                 THEN EnterRun("resume", from_round, None, workflow_id)
                 ELSE \E to_round \in RoundNames :
                        EnterRun("resume", from_round, to_round, workflow_id)
  /\ UNCHANGED <<executor, store, tool_vars>>

\* Faulty variant of BeginRound: every round from the current one on is
\* persisted as running.
BeginRoundMarksRest ==
  /\ pc = "begin_round"
  /\ round_status' = [r \in RoundNames |->
                        IF RoundIndex(r) >= cur THEN "running" ELSE round_status[r]]
  /\ pc' = "execute_round"
  /\ UNCHANGED <<session, corrupt, run_dirs, call, cur, workflow_status,
                 round_results, trace, outcome, paused_at, finished_past, events>>
  /\ UNCHANGED <<executor, store, tool_vars>>

\* Faulty variant of BeginRound: the round is set to running in the payload
\* but the payload is not written before the round is executed.
BeginRoundUnwritten ==
  /\ pc = "begin_round"
  /\ pc' = "execute_round"
  /\ UNCHANGED <<round_status, session, corrupt, run_dirs, call, cur, workflow_status,
                 round_results, trace, outcome, paused_at, finished_past, events>>
  /\ UNCHANGED <<executor, store, tool_vars>>

\* Top of the loop body (lines 140-142): the round is persisted as running.
BeginRound ==
  /\ pc = "begin_round"
  /\ round_status' = [round_status EXCEPT ![RUN_ORDER[cur]] = "running"]
  /\ pc' = "execute_round"
  /\ UNCHANGED <<session, corrupt, run_dirs, call, cur, workflow_status,
                 round_results, trace, outcome, paused_at, finished_past, events>>
  /\ UNCHANGED <<executor, store, tool_vars>>

\* Faulty variant of ExecuteRound: the loop is not left after a round that
\* failed or paused.
ExecuteRoundGoesOn ==
  /\ pc = "execute_round"
  /\ \E s \in ScriptsWithin[RUN_ORDER[cur] = "round0",
                            call.policy.auto_repair_check_failures,
                            MaxEvents - events] :
     \E run \in {execute_round(RUN_ORDER[cur], call.policy, call.workflow_id, s)} :
       LET round_name == RUN_ORDER[cur]
           entry == [round_name |-> round_name, script |-> s,
                     init_calls |-> run.init_calls,
                     codex_calls |-> run.codex_calls, check_calls |-> run.check_calls]
       IN /\ Charge(ScriptCost(s))
          /\ trace' = Append(trace, entry)
          /\ IF run.raised
             THEN /\ pc' = "raised"
                  /\ outcome' = Raised("RuntimeError")
                  /\ UNCHANGED <<round_status, cur, workflow_status, round_results>>
             ELSE /\ round_status' = [round_status EXCEPT ![round_name] = run.result.status]
                  /\ round_results' = Append(round_results, run.result)
                  /\ workflow_status' =
                       IF run.result.status = "failed" THEN "failed_recoverable"
                       ELSE IF run.result.status = "paused" THEN "paused"
                       ELSE workflow_status
                  /\ IF cur < RoundIndex(call.to_round)
                     THEN pc' = "begin_round" /\ cur' = cur + 1
                     ELSE pc' = "finalize" /\ cur' = cur
                  /\ outcome' = outcome
  /\ UNCHANGED <<session, corrupt, run_dirs, call, paused_at, finished_past>>
  /\ UNCHANGED <<executor, store, tool_vars>>

\* The rest of the loop body (lines 143-372): the collaborators are called,
\* the round's final status is persisted and its result appended; the loop
\* goes on with the next round or is left.
ExecuteRound ==
  /\ pc = "execute_round"
  /\ \E s \in ScriptsWithin[RUN_ORDER[cur] = "round0",
                            call.policy.auto_repair_check_failures,
                            MaxEvents - events] :
     \E run \in {execute_round(RUN_ORDER[cur], call.policy, call.workflow_id, s)} :
       LET round_name == RUN_ORDER[cur]
           entry == [round_name |-> round_name, script |-> s,
                     init_calls |-> run.init_calls,
                     codex_calls |-> run.codex_calls, check_calls |-> run.check_calls]
       IN /\ Charge(ScriptCost(s))
          /\ trace' = Append(trace, entry)
          /\ IF run.raised
             THEN /\ pc' = "raised"
                  /\ outcome' = Raised("RuntimeError")
                  /\ UNCHANGED <<round_status, cur, workflow_status, round_results>>
             ELSE /\ round_status' = [round_status EXCEPT ![round_name] = run.result.status]
                  /\ round_results' = Append(round_results, run.result)
                  /\ workflow_status' =
                       IF run.result.status = "failed" THEN "failed_recoverable"
                       ELSE IF run.result.status = "paused" THEN "paused"
                       ELSE workflow_status
                  /\ IF run.result.status = "completed" /\ cur < RoundIndex(call.to_round)
                     THEN pc' = "begin_round" /\ cur' = cur + 1
                     ELSE pc' = "finalize" /\ cur' = cur
                  /\ outcome' = outcome
  /\ UNCHANGED <<session, corrupt, run_dirs, call, paused_at, finished_past>>
  /\ UNCHANGED <<executor, store, tool_vars>>

\* The call that ends is a resume() that followed a run paused at a round
\* before final, started at the round after it and completed every round
\* through final.
resumed_through_final(c, status) ==
  /\ c.op = "resume"
  /\ c.entry_paused_at \notin {None, "final"}
  /\ c.from_round = RUN_ORDER[RoundIndex(c.entry_paused_at) + 1]
  /\ c.to_round = "final"
  /\ status = "succeeded"

\* Faulty variant of Finalize: the result carries the session's status in
\* place of the workflow's.
FinalizeReportsSessionStatus ==
  /\ pc = "finalize"
  /\ session' = [status |-> final_session_status(workflow_status),
                 current_run_id |-> NullRunId]
  /\ outcome' = WorkflowRunResult(final_session_status(workflow_status), round_results)
  /\ paused_at' = IF workflow_status = "paused"
                  THEN round_results[Len(round_results)].round_name ELSE None
  /\ finished_past' = IF resumed_through_final(call, workflow_status)
                      THEN call.entry_paused_at ELSE None
  /\ pc' = "returned"
  /\ UNCHANGED <<round_status, corrupt, run_dirs, call, cur, workflow_status,
                 round_results, trace, events>>
  /\ UNCHANGED <<executor, store, tool_vars>>

\* After the loop (lines 374-395): the session gets its final status, the
\* result is written and returned.
Finalize ==
  /\ pc = "finalize"
  /\ session' = [status |-> final_session_status(workflow_status),
                 current_run_id |-> NullRunId]
  /\ outcome' = WorkflowRunResult(workflow_status, round_results)
  /\ paused_at' = IF workflow_status = "paused"
                  THEN round_results[Len(round_results)].round_name ELSE None
  /\ finished_past' = IF resumed_through_final(call, workflow_status)
                      THEN call.entry_paused_at ELSE None
  /\ pc' = "returned"
  /\ UNCHANGED <<round_status, corrupt, run_dirs, call, cur, workflow_status,
                 round_results, trace, events>>
  /\ UNCHANGED <<executor, store, tool_vars>>

ClearFrame ==
  /\ pc' = "idle"
  /\ call' = NoCall
  /\ cur' = 0
  /\ workflow_status' = None
  /\ round_results' = <<>>
  /\ trace' = <<>>
  /\ outcome' = NoOutcome

\* The caller is done with the result (or the exception) of the call.
Return ==
  /\ pc \in {"returned", "raised"}
  /\ ClearFrame
  /\ UNCHANGED <<round_status, session, corrupt, run_dirs, paused_at, finished_past, events>>
  /\ UNCHANGED <<executor, store, tool_vars>>

\* The process is killed while run() is in flight: the frame is lost, the
\* files stay as they are.
Kill ==
  /\ InFlight
  /\ Charge(1)
  /\ ClearFrame
  /\ UNCHANGED <<round_status, session, corrupt, run_dirs, paused_at, finished_past>>
  /\ UNCHANGED <<executor, store, tool_vars>>

\* A state document is overwritten with invalid JSON between two calls.
Corrupt ==
  /\ pc = "idle"
  /\ Charge(1)
  /\ \E files \in (SUBSET {"session", "round_status"}) \ {{}} :
       /\ files \cap corrupt = {}
       /\ corrupt' = corrupt \cup files
  /\ UNCHANGED <<round_status, session, run_dirs, pc, call, cur, workflow_status,
                 round_results, trace, outcome, paused_at>>
  /\ finished_past' = None
  /\ UNCHANGED <<executor, store, tool_vars>>

Next ==
  \/ Run
  \/ Resume
  \/ BeginRound
  \/ ExecuteRound
  \/ Finalize
  \/ Return
  \/ Kill
  \/ Corrupt

Spec == Init /\ [][Next]_vars

\* The same behaviours under a second name: the properties of the rounds and
\* documents of one call (C32 to C39) are checked under SpecCall, the others
\* under Spec.
SpecCall == Init /\ [][Next]_vars

TypeOK ==
  /\ round_status \in [RoundNames -> RoundStatuses]
  /\ session.status \in {"idle", "running", "paused", "failed_recoverable"}
  /\ session.current_run_id \in RunIds \cup {NullRunId, EscapeRunId}
  /\ corrupt \subseteq {"session", "round_status"}
  /\ finished_past \in (RoundNames \ {"final"}) \cup {None}
  /\ run_dirs \subseteq RunIds \cup {EscapeRunId}
  /\ pc \in {"idle", "begin_round", "execute_round", "finalize", "returned", "raised"}
  /\ cur \in 0..Len(RUN_ORDER)
  /\ events \in 0..MaxEvents

\* -------------------------------------------- CodexExecutor.run, by step
\* CodexExecutor.run from its first line to the prompt written in the new run
\* directory (lines 61-75).
CodexRun ==
  /\ executor.frame.pc = "idle"
  /\ executor.runs < MaxRuns
  /\ \E id \in RunIdArgs, max_retries \in -1..MaxRetries :
       LET new_id == IF id # <<>> THEN id ELSE default_run_id(executor.runs + 1)
           frame == [NoFrame EXCEPT
                       !.request = [run_id |-> id, max_retries |-> max_retries,
                                    entry_dirs |-> executor.dirs]]
       IN IF max_retries_rejected(max_retries)
          THEN executor' =
                 [executor EXCEPT
                    !.runs = @ + 1,
                    !.frame = [frame EXCEPT !.pc = "raised",
                                            !.result = CodexRaised("ValueError")]]
          ELSE IF run_dir(new_id) \in executor.dirs
          THEN \* run_dir.mkdir(parents=True, exist_ok=False)
               executor' =
                 [executor EXCEPT
                    !.runs = @ + 1,
                    !.frame = [frame EXCEPT !.pc = "raised", !.run_id = new_id,
                                            !.result = CodexRaised("FileExistsError")]]
          ELSE executor' =
                 [executor EXCEPT
                    !.runs = @ + 1,
                    !.dirs = @ \cup {run_dir(new_id)},
                    !.frame = [frame EXCEPT !.pc = "version", !.run_id = new_id]]
  /\ UNCHANGED <<workflow_vars, store, tool_vars>>

\* _read_codex_version and the locals set before the loop (lines 77-81); the
\* probe raises when the tool is not installed.
ReadCodexVersion ==
  /\ executor.frame.pc = "version"
  /\ \E installed \in BOOLEAN :
       LET frame == [executor.frame EXCEPT !.commands = Append(@, "version")] IN
       executor' =
         [executor EXCEPT
            !.frame =
              IF installed
              THEN [frame EXCEPT
                      !.final_exit_code = 1,
                      !.final_error = None,
                      !.pc = IF 1 \in attempt_range(frame.request.max_retries)
                             THEN "attempt" ELSE "finish"]
              ELSE [frame EXCEPT !.pc = "raised",
                                 !.result = CodexRaised("FileNotFoundError")]]
  /\ UNCHANGED <<workflow_vars, store, tool_vars>>

\* One iteration of the loop (lines 83-123).
Attempt ==
  /\ executor.frame.pc = "attempt"
  /\ \E returncode \in ReturnCodes, stdio \in Stdios :
       LET frame == executor.frame
           attempt == Len(frame.attempts_log) + 1
           retry == /\ returncode # 0
                    /\ attempts_remain(attempt, frame.request.max_retries)
                    /\ is_retryable_failure(stdio)
       IN executor' =
            [executor EXCEPT
               !.frame =
                 [frame EXCEPT
                    !.commands = Append(@, "exec"),
                    !.completed = Append(@, [returncode |-> returncode, stdio |-> stdio]),
                    !.final_exit_code = returncode,
                    !.attempts_log =
                      Append(@, [attempt |-> attempt, exit_code |-> returncode,
                                 retry_reason |-> IF retry THEN "retryable_failure"
                                                  ELSE None]),
                    !.final_error = IF returncode = 0 THEN None ELSE "error",
                    !.pc = IF retry /\ attempt + 1 \in attempt_range(frame.request.max_retries)
                           THEN "attempt" ELSE "finish"]]
  /\ UNCHANGED <<workflow_vars, store, tool_vars>>

\* After the loop (lines 125-159): the manifest is written and the result
\* returned.
FinishRun ==
  /\ executor.frame.pc = "finish"
  /\ LET frame == executor.frame IN
       executor' =
         [executor EXCEPT
            !.manifest =
              [run_id |-> frame.run_id, max_retries |-> frame.request.max_retries,
               attempts |-> frame.attempts_log,
               final_exit_code |-> frame.final_exit_code,
               success |-> frame.final_exit_code = 0],
            !.frame =
              [frame EXCEPT
                 !.pc = "returned",
                 !.result = CodexRunResult(frame.run_id, frame.final_exit_code = 0,
                                           Len(frame.attempts_log),
                                           frame.final_exit_code, frame.final_error)]]
  /\ UNCHANGED <<workflow_vars, store, tool_vars>>

\* The caller is done with the result (or the exception) of the call.
CodexReturn ==
  /\ executor.frame.pc \in {"returned", "raised"}
  /\ executor' = [executor EXCEPT !.frame = NoFrame]
  /\ UNCHANGED <<workflow_vars, store, tool_vars>>

NextExecutor ==
  \/ CodexRun
  \/ ReadCodexVersion
  \/ Attempt
  \/ FinishRun
  \/ CodexReturn

SpecExecutor == InitComponents /\ [][NextExecutor]_vars

\* --------------------------------------------------- _write_json, by step
\* _write_json is called (line 574: the parent directory exists already).
WriteJson ==
  /\ store.pc \in {"idle", "done", "killed"}
  /\ store.writes < MaxWrites
  /\ \E path \in StorePaths, payload \in Documents :
       store' = [store EXCEPT
                   !.writes = @ + 1,
                   !.pc = "open",
                   !.call = [path |-> path, payload |-> payload,
                             before |-> read_json(store.disk, path)]]
  /\ UNCHANGED <<workflow_vars, executor, tool_vars>>

\* temp_path.open("w"): the temporary file is created or truncated.
OpenTemp ==
  /\ store.pc = "open"
  /\ LET temp == temp_path(store.call.path) IN
       store' = [store EXCEPT
                   !.pc = "write",
                   !.disk = [path \in DOMAIN @ \cup {temp} |->
                               IF path = temp THEN <<>> ELSE @[path]]]
  /\ UNCHANGED <<workflow_vars, executor, tool_vars>>

\* json.dump and fp.write("\n"): the next piece of the text reaches the
\* temporary file; after the last one the file is closed.
WriteChunk ==
  /\ store.pc = "write"
  /\ LET temp == temp_path(store.call.path)
         text == dump(store.call.payload)
         written == Len(store.disk[temp])
     IN store' = [store EXCEPT
                    !.disk[temp] = Append(@, text[written + 1]),
                    !.pc = IF written + 1 = Len(text) THEN "replace" ELSE "write"]
  /\ UNCHANGED <<workflow_vars, executor, tool_vars>>

\* temp_path.replace(path): the rename is atomic.
ReplaceTemp ==
  /\ store.pc = "replace"
  /\ LET temp == temp_path(store.call.path) IN
       store' = [store EXCEPT
                   !.pc = "done",
                   !.disk = [path \in (DOMAIN @ \ {temp}) \cup {store.call.path} |->
                               IF path = store.call.path THEN @[temp] ELSE @[path]]]
  /\ UNCHANGED <<workflow_vars, executor, tool_vars>>

\* The process is killed inside _write_json: the files stay as they are.
KillWriter ==
  /\ store.pc \in {"open", "write", "replace"}
  /\ store' = [store EXCEPT !.pc = "killed"]
  /\ UNCHANGED <<workflow_vars, executor, tool_vars>>

NextStore ==
  \/ WriteJson
  \/ OpenTemp
  \/ WriteChunk
  \/ ReplaceTemp
  \/ KillWriter

SpecStore == InitComponents /\ [][NextStore]_vars

\* ----------------------------------------------------- CheckRunner.run, by step
\* CheckRunner.run up to the start of the subprocess (lines 54-69).
CheckRun ==
  /\ checker.frame.pc = "idle"
  /\ checker.calls < MaxChecks
  /\ \E timeout_seconds \in TimeoutSeconds, output_path \in BOOLEAN,
        script_exists \in BOOLEAN :
       LET entered == [NoCheckFrame EXCEPT !.timeout_seconds = timeout_seconds,
                                           !.output_path = output_path]
       IN checker' =
            [checker EXCEPT
               !.calls = @ + 1,
               !.frame = IF script_exists
                         THEN [entered EXCEPT !.pc = "subprocess"]
                         ELSE [entered EXCEPT
                                 !.pc = "raised",
                                 !.result = CheckRaised("FileNotFoundError")]]
  /\ UNCHANGED <<workflow_vars, executor, store, snapshots, differ, history, resumer, timer>>

\* The rest of run() once subprocess.run has returned or raised (lines
\* 70-96), for the outcome process.
finish_check(process) ==
  LET frame == checker.frame
      timed_out == process.ended = "TimeoutExpired"
      exit_code == IF timed_out THEN 124 ELSE process.returncode
      stdout == IF timed_out THEN timeout_output_text(process.stdout)
                ELSE process.stdout.text
      stderr == IF timed_out
                THEN timeout_stderr(timeout_output_text(process.stderr),
                                    frame.timeout_seconds)
                ELSE process.stderr.text
      result == CheckRunResult(exit_code, stdout, stderr, payload_of(timed_out, stdout))
  IN checker' =
       [checker EXCEPT
          !.output = IF frame.output_path THEN result ELSE @,
          !.frame = [frame EXCEPT !.pc = "returned", !.process = process,
                                  !.result = result]]

\* The script exits within the timeout.
CheckCompleted ==
  /\ checker.frame.pc = "subprocess"
  /\ \E returncode \in CheckExitCodes, stdout \in CheckStdouts, stderr \in CheckStderrs :
       finish_check([ended |-> "CompletedProcess", returncode |-> returncode,
                     stdout |-> [type |-> "str", text |-> stdout],
                     stderr |-> [type |-> "str", text |-> stderr]])
  /\ UNCHANGED <<workflow_vars, executor, store, snapshots, differ, history, resumer, timer>>

\* The timeout expires: subprocess.run raises TimeoutExpired with what was
\* captured so far.
CheckTimedOut ==
  /\ checker.frame.pc = "subprocess"
  /\ \E stdout \in CapturedStdouts, stderr \in CapturedStderrs :
       finish_check([ended |-> "TimeoutExpired", returncode |-> 0,
                     stdout |-> stdout, stderr |-> stderr])
  /\ UNCHANGED <<workflow_vars, executor, store, snapshots, differ, history, resumer, timer>>

\* The caller is done with the result (or the exception) of the call.
CheckReturn ==
  /\ checker.frame.pc \in {"returned", "raised"}
  /\ checker' = [checker EXCEPT !.frame = NoCheckFrame]
  /\ UNCHANGED <<workflow_vars, executor, store, snapshots, differ, history, resumer, timer>>

NextCheck ==
  \/ CheckRun
  \/ CheckCompleted
  \/ CheckTimedOut
  \/ CheckReturn

SpecCheck == InitComponents /\ [][NextCheck]_vars

\* ------------------------------------------------ SnapshotService, by call
\* create_snapshot, from the call to its return or its exception.
CreateSnapshot ==
  /\ snapshots.frame.pc = "idle"
  /\ \E sources \in SourceLists, snapshot_id \in SnapshotIdArgs :
       LET call_ == create_snapshot(snapshots.disk, sources, snapshot_id) IN
       snapshots' =
         [snapshots EXCEPT
            !.disk = call_.disk,
            !.tampered = IF call_.result.kind = "returned" THEN {} ELSE @,
            !.frame = [NoSnapshotFrame EXCEPT
                         !.pc = call_.result.kind, !.op = "create_snapshot",
                         !.entry = snapshots.disk,
                         !.sources = sources, !.snapshot_id = snapshot_id,
                         !.result = call_.result]]
  /\ UNCHANGED <<workflow_vars, executor, store, checker, differ, history, resumer, timer>>

\* verify_snapshot_hashes, from the call to its return or its exception.
VerifySnapshot ==
  /\ snapshots.frame.pc = "idle"
  /\ \E call_ \in {verify_snapshot_hashes(snapshots.disk)} :
       snapshots' =
         [snapshots EXCEPT
            !.frame = [NoSnapshotFrame EXCEPT
                         !.pc = call_.result.kind, !.op = "verify_snapshot_hashes",
                         !.entry = snapshots.disk,
                         !.result = call_.result,
                         !.tested = call_.log.tested, !.hashed = call_.log.hashed]]
  /\ UNCHANGED <<workflow_vars, executor, store, checker, differ, history, resumer, timer>>

\* The caller is done with the result (or the exception) of the call.
SnapshotReturn ==
  /\ snapshots.frame.pc \in {"returned", "raised"}
  /\ snapshots' = [snapshots EXCEPT !.frame = NoSnapshotFrame]
  /\ UNCHANGED <<workflow_vars, executor, store, checker, differ, history, resumer, timer>>

\* Someone makes a copied file writable and changes its content.
TamperCopy ==
  /\ snapshots.frame.pc = "idle"
  /\ Cardinality(snapshots.tampered) < MaxTampered
  /\ \E path \in DOMAIN snapshots.disk.files \ snapshots.tampered :
       snapshots' = [snapshots EXCEPT !.disk.files[path] = "mutated",
                                      !.tampered = @ \cup {path}]
  /\ UNCHANGED <<workflow_vars, executor, store, checker, differ, history, resumer, timer>>

\* Someone replaces artifacts/source_hashes.json.
CraftHashes ==
  /\ snapshots.frame.pc = "idle"
  /\ \E hashes \in CraftedHashes :
       /\ hashes # snapshots.disk.hashes
       /\ snapshots' = [snapshots EXCEPT !.disk.hashes = hashes]
  /\ UNCHANGED <<workflow_vars, executor, store, checker, differ, history, resumer, timer>>

NextSnapshot ==
  \/ CreateSnapshot
  \/ VerifySnapshot
  \/ SnapshotReturn
  \/ TamperCopy

SpecSnapshot == InitComponents /\ [][NextSnapshot]_vars

\* verify_snapshot_hashes on the manifests a third party leaves in a project
\* without snapshots.
NextManifest ==
  \/ CraftHashes
  \/ VerifySnapshot
  \/ SnapshotReturn

SpecManifest == InitComponents /\ [][NextManifest]_vars

\* ---------------------------------------------------- DiffService, by call
\* capture_state, from the call to its return.
CaptureState ==
  /\ differ.frame.pc = "idle"
  /\ LET call_ == capture_state(differ.tree) IN
       differ' = [differ EXCEPT
                    !.frame = [pc |-> "returned", state |-> call_.state,
                               reads |-> call_.reads]]
  /\ UNCHANGED <<workflow_vars, executor, store, checker, snapshots, history, resumer, timer>>

\* The caller is done with the mapping.
DiffReturn ==
  /\ differ.frame.pc = "returned"
  /\ differ' = [differ EXCEPT !.frame = NoDiffFrame]
  /\ UNCHANGED <<workflow_vars, executor, store, checker, snapshots, history, resumer, timer>>

\* A round (or anyone else) writes a file or a link below the root.
WriteEntry ==
  /\ differ.frame.pc = "idle"
  /\ \E path \in DOMAIN NotesEntries : \E node \in NotesEntries[path] :
       /\ path \in DOMAIN differ.tree => differ.tree[path] # node
       /\ differ' = [differ EXCEPT !.tree = (path :> node) @@ @]
  /\ UNCHANGED <<workflow_vars, executor, store, checker, snapshots, history, resumer, timer>>

\* A round (or anyone else) deletes a file or a link below the root.
DeleteEntry ==
  /\ differ.frame.pc = "idle"
  /\ \E path \in DOMAIN differ.tree :
       differ' = [differ EXCEPT
                    !.tree = [q \in DOMAIN @ \ {path} |-> @[q]]]
  /\ UNCHANGED <<workflow_vars, executor, store, checker, snapshots, history, resumer, timer>>

NextDiff ==
  \/ CaptureState
  \/ DiffReturn
  \/ WriteEntry
  \/ DeleteEntry

SpecDiff == InitComponents /\ [][NextDiff]_vars

\* ---------------------------------------------- RunHistoryService, by call
\* list_runs, from the call to its return or its exception.
ListRuns ==
  /\ history.frame.pc = "idle"
  /\ LET call_ == list_runs(history.documents) IN
       history' = [history EXCEPT
                     !.frame = [NoHistoryFrame EXCEPT
                                  !.pc = call_.result.kind, !.op = "list_runs",
                                  !.result = call_.result, !.reads = call_.reads]]
  /\ UNCHANGED <<workflow_vars, executor, store, checker, snapshots, differ, resumer, timer>>

\* resolve_patch_path, from the call to its return or its exception.
ResolvePatchPath ==
  /\ history.frame.pc = "idle"
  /\ \E run_id \in HistoryRunIds, round_name \in RoundNameArgs :
       LET call_ == resolve_patch_path(history.documents, run_id, round_name) IN
       history' = [history EXCEPT
                     !.frame = [pc |-> call_.result.kind, op |-> "resolve_patch_path",
                                run_id |-> run_id, round_name |-> round_name,
                                result |-> call_.result, reads |-> call_.reads]]
  /\ UNCHANGED <<workflow_vars, executor, store, checker, snapshots, differ, resumer, timer>>

\* read_patch, from the call to its return or its exception.
ReadPatch ==
  /\ history.frame.pc = "idle"
  /\ \E run_id \in HistoryRunIds, round_name \in RoundNameArgs :
       LET call_ == read_patch(history.documents, run_id, round_name) IN
       history' = [history EXCEPT
                     !.frame = [pc |-> call_.result.kind, op |-> "read_patch",
                                run_id |-> run_id, round_name |-> round_name,
                                result |-> call_.result, reads |-> call_.reads]]
  /\ UNCHANGED <<workflow_vars, executor, store, checker, snapshots, differ, resumer, timer>>

\* The caller is done with the result (or the exception) of the call.
HistoryReturn ==
  /\ history.frame.pc \in {"returned", "raised"}
  /\ history' = [history EXCEPT !.frame = NoHistoryFrame]
  /\ UNCHANGED <<workflow_vars, executor, store, checker, snapshots, differ, resumer, timer>>

\* workflow_result.json of a run directory is written, damaged or removed.
WriteWorkflowResult ==
  /\ history.frame.pc = "idle"
  /\ \E name \in WorkflowRuns, document \in WorkflowDocuments :
       /\ history.documents[name] # document
       /\ history' = [history EXCEPT !.documents[name] = document]
  /\ UNCHANGED <<workflow_vars, executor, store, checker, snapshots, differ, resumer, timer>>

NextHistory ==
  \/ ListRuns
  \/ ResolvePatchPath
  \/ ReadPatch
  \/ HistoryReturn
  \/ WriteWorkflowResult

SpecHistory == InitComponents /\ [][NextHistory]_vars

\* ------------------------------------- _resolve_resume_from_round, by call
\* Every round_status.json that holds one of the five statuses for each
\* round.
RoundStatusFiles == [RoundNames -> RoundStatuses]

InitResume ==
  /\ InitWorkflow
  /\ executor = Apart
  /\ store = Apart
  /\ checker = Apart
  /\ snapshots = Apart
  /\ differ = Apart
  /\ history = Apart
  /\ timer = Apart
  /\ resumer \in [round_status : RoundStatusFiles, pc : {"idle"}, from_round : {None}]

\* resume() reads round_status.json and resolves the round to start from
\* (lines 414-416).
ResolveResume ==
  /\ resumer.pc = "idle"
  /\ resumer' = [resumer EXCEPT
                   !.pc = "resolved",
                   !.from_round = resolve_resume_from_round(resumer.round_status)]
  /\ UNCHANGED <<workflow_vars, executor, store, checker, snapshots, differ, history, timer>>

\* Someone edits one entry of round_status.json between two calls.
EditRoundStatus ==
  /\ resumer.pc = "resolved"
  /\ \E round_name \in RoundNames, status \in RoundStatuses :
       /\ resumer.round_status[round_name] # status
       /\ resumer' = [round_status |-> [resumer.round_status EXCEPT ![round_name] = status],
                      pc |-> "idle", from_round |-> None]
  /\ UNCHANGED <<workflow_vars, executor, store, checker, snapshots, differ, history, timer>>

NextResume ==
  \/ ResolveResume
  \/ EditRoundStatus

SpecResume == InitResume /\ [][NextResume]_vars

\* ------------------------- focuslog: TimerService and PomodoroRunner
\* (api/timer_service.py, timer.py). The service methods run under the
\* service's lock and are one step each; the worker thread runs
\* PomodoroRunner.run in steps between which the other threads can act.
\* Durations are counted in ticks of tick_seconds = 1 second.
TimerConfigs ==
  [cycles : 0..MaxCycles, work_sec : 0..MaxSeconds, break_sec : 0..MaxSeconds,
   long_break_sec : 0..MaxSeconds]

\* interrupted_reason of a session stopped through request_stop (the four
\* characters written at line 198 of timer.py).
ManualStop == "manual stop"

\* cycles = max(1, config.cycles) (line 73)
cycles_of(config) == IF config.cycles < 1 THEN 1 ELSE config.cycles

\* duration_sec of the interval of a kind (lines 96, 120, 143).
duration_of(config, kind) ==
  IF kind = "work" THEN config.work_sec
  ELSE IF kind = "break" THEN config.break_sec
  ELSE config.long_break_sec

NoConfig == [cycles |-> 0, work_sec |-> 0, break_sec |-> 0, long_break_sec |-> 0]

\* TimerService after __init__ (lines 26-32), with an empty sessions table and
\* no worker thread.
InitTimerState ==
  [status |-> "idle", remaining_sec |-> 0, completed_work_sessions |-> 0,
   runner |-> FALSE, worker |-> FALSE,
   stop_requested |-> FALSE, pc |-> "none", config |-> NoConfig,
   cycle_idx |-> 0, kind |-> None, remaining |-> 0, completed |-> TRUE,
   interrupted_reason |-> None, completed_work |-> 0, logged_sessions |-> 0,
   sessions |-> <<>>, result |-> None, starts |-> 0, stop_at |-> None]

InitTimer ==
  /\ InitWorkflow
  /\ executor = Apart
  /\ store = Apart
  /\ checker = Apart
  /\ snapshots = Apart
  /\ differ = Apart
  /\ history = Apart
  /\ resumer = Apart
  /\ timer = InitTimerState

\* TimerService.start (lines 42-57): nothing happens while a worker is alive;
\* otherwise a new PomodoroRunner (its _stop_requested False, line 66) and a
\* worker thread that has yet to enter run().
TimerStart ==
  /\ timer.starts < MaxStarts
  /\ \E config \in TimerConfigs :
       timer' = IF timer.worker
                THEN [timer EXCEPT !.starts = @ + 1]
                ELSE [InitTimerState EXCEPT
                        !.status = "running", !.runner = TRUE, !.worker = TRUE,
                        !.pc = "spawned", !.config = config,
                        !.sessions = timer.sessions, !.starts = timer.starts + 1]
  /\ UNCHANGED <<workflow_vars, executor, store, checker, snapshots, differ, history, resumer>>

\* TimerService.stop (lines 59-66) with PomodoroRunner.request_stop
\* (lines 68-69); stop_at keeps where the worker stood at the first stop()
\* that found the runner.
TimerStop ==
  /\ timer.runner
  /\ timer.stop_at = None
  /\ timer' = [timer EXCEPT !.stop_requested = TRUE, !.status = "stopping",
                            !.stop_at = timer.pc]
  /\ UNCHANGED <<workflow_vars, executor, store, checker, snapshots, differ, history, resumer>>

\* The worker enters PomodoroRunner.run (lines 71-92): the stop flag is
\* cleared, run_start is emitted and the first work interval is next.
RunnerRun ==
  /\ timer.pc = "spawned"
  /\ timer' = [timer EXCEPT !.stop_requested = FALSE, !.pc = "interval_start",
                            !.cycle_idx = 1, !.kind = "work"]
  /\ UNCHANGED <<workflow_vars, executor, store, checker, snapshots, differ, history, resumer>>

\* _run_interval up to its loop (lines 183-193).
IntervalStart ==
  /\ timer.pc = "interval_start"
  /\ timer' = [timer EXCEPT !.pc = "loop",
                            !.remaining = duration_of(timer.config, timer.kind),
                            !.completed = TRUE, !.interrupted_reason = None]
  /\ UNCHANGED <<workflow_vars, executor, store, checker, snapshots, differ, history, resumer>>

\* One pass of the loop of _run_interval up to the sleep (lines 195-215); the
\* tick event sets the remaining seconds of the service (lines 92-94).
IntervalLoop ==
  /\ timer.pc = "loop"
  /\ timer' = IF timer.stop_requested
              THEN [timer EXCEPT !.completed = FALSE,
                                 !.interrupted_reason = ManualStop,
                                 !.pc = "interval_end"]
              ELSE IF timer.remaining <= 0
              THEN [timer EXCEPT !.pc = "interval_end"]
              ELSE [timer EXCEPT !.remaining_sec = timer.remaining, !.pc = "sleep"]
  /\ UNCHANGED <<workflow_vars, executor, store, checker, snapshots, differ, history, resumer>>

\* clock.sleep(min(remaining, tick_seconds)) (lines 215-218); the worker of
\* the service is not the main thread, so no KeyboardInterrupt is raised in it.
ClockSleep ==
  /\ timer.pc = "sleep"
  /\ timer' = [timer EXCEPT !.remaining = @ - 1, !.pc = "loop"]
  /\ UNCHANGED <<workflow_vars, executor, store, checker, snapshots, differ, history, resumer>>

\* The interval that follows a completed one in run() (lines 92-160); its
\* kind is None when the run is over.
next_interval(config, cycle_idx, kind) ==
  LET cycles == cycles_of(config)
      long_break == cycle_idx = cycles /\ cycles > 1 /\ config.long_break_sec > 0
      next_cycle == IF cycle_idx < cycles
                    THEN [cycle_idx |-> cycle_idx + 1, kind |-> "work"]
                    ELSE [cycle_idx |-> cycle_idx, kind |-> None]
  IN IF kind = "work" /\ cycle_idx < cycles /\ config.break_sec > 0
     THEN [cycle_idx |-> cycle_idx, kind |-> "break"]
     ELSE IF kind # "long_break" /\ long_break
     THEN [cycle_idx |-> cycle_idx, kind |-> "long_break"]
     ELSE next_cycle

\* The run_end event (run() lines 107-113 and 164-170, _on_event lines 95-102)
\* and the return of run().
run_end(t, interrupted) ==
  [t EXCEPT !.status = "idle", !.remaining_sec = 0,
            !.completed_work_sessions = t.completed_work,
            !.runner = FALSE, !.worker = FALSE, !.pc = "returned",
            !.result = [interrupted |-> interrupted,
                        completed_work_sessions |-> t.completed_work,
                        logged_sessions |-> t.logged_sessions]]

\* The rest of _run_interval (lines 224-273): the session is added to the
\* database; then run() goes on with the next interval or ends (lines 103-170).
IntervalEnd ==
  /\ timer.pc = "interval_end"
  /\ \E logged \in {[timer EXCEPT
                       !.sessions = Append(@, [kind |-> IF timer.kind = "work"
                                                        THEN "work" ELSE "break",
                                               completed |-> timer.completed,
                                               interrupted_reason |-> timer.interrupted_reason]),
                       !.logged_sessions = @ + 1,
                       !.completed_work = IF timer.completed /\ timer.kind = "work"
                                          THEN @ + 1 ELSE @]} :
       \E next \in {next_interval(timer.config, timer.cycle_idx, timer.kind)} :
         timer' = IF ~timer.completed THEN run_end(logged, TRUE)
                  ELSE IF next.kind = None THEN run_end(logged, FALSE)
                  ELSE [logged EXCEPT !.pc = "interval_start",
                                      !.cycle_idx = next.cycle_idx, !.kind = next.kind]
  /\ UNCHANGED <<workflow_vars, executor, store, checker, snapshots, differ, history, resumer>>

NextTimer ==
  \/ TimerStart
  \/ TimerStop
  \/ RunnerRun
  \/ IntervalStart
  \/ IntervalLoop
  \/ ClockSleep
  \/ IntervalEnd

SpecTimer == InitTimer /\ [][NextTimer]_vars

\* ------------------------------------------------------------- the claims
\* The rounds of the range of the call in flight, as indexes of RUN_ORDER.
RangeOfCall == RoundIndex(call.from_round)..RoundIndex(call.to_round)

\* The call entered run()'s loop (it was not rejected before it).
EnteredLoop == pc \in {"begin_round", "execute_round", "finalize", "returned"} /\ call.from_round # None

\* A pause condition of the policy holds for a round with this diff.
PauseConditionHolds(round_name, changed_files, changed_lines, p) ==
  \/ p.pause_after_each_round
  \/ /\ round_name # "round0"
     /\ \/ p.max_changed_files >= 0 /\ changed_files > p.max_changed_files
        \/ p.max_changed_lines >= 0 /\ changed_lines > p.max_changed_lines

\* Every generation the round invoked succeeded and its last verification passed.
RoundSucceeded(e) ==
  /\ e.script.codex = "success"
  /\ e.script.repair = "success"
  /\ IF e.check_calls = 2 THEN e.script.recheck = "passed" ELSE e.script.check = "passed"

AllRoundsSucceed ==
  \A i \in 1..Len(trace) :
    /\ RoundSucceeded(trace[i])
    /\ ~PauseConditionHolds(trace[i].round_name, trace[i].script.diff.changed_files,
                            trace[i].script.diff.changed_lines, call.policy)

\* C1: a run over [from_round, to_round] in which every round's generation
\* and verification succeed and no pause condition holds returns status
\* succeeded with one result per round of the range, in order, and every
\* round of the range is persisted as completed.
C1_SuccessfulRun ==
  (pc = "returned" /\ call.from_round # None /\ AllRoundsSucceed) =>
    /\ outcome.status = "succeeded"
    /\ Len(outcome.rounds) = Cardinality(RangeOfCall)
    /\ \A i \in 1..Len(outcome.rounds) :
         /\ outcome.rounds[i].round_name = RUN_ORDER[RoundIndex(call.from_round) + i - 1]
         /\ outcome.rounds[i].status = "completed"
    /\ \A i \in RangeOfCall : round_status[RUN_ORDER[i]] = "completed"

C1_Witness ==
  /\ pc = "returned"
  /\ call.op = "run"
  /\ AllRoundsSucceed
  /\ Len(outcome.rounds) >= 3
  /\ \E i \in 1..Len(trace) : trace[i].check_calls = 2

\* C2: a round other than round0 whose first verification fails and whose
\* verification passes after the repair attempt has a result with
\* repaired = true, status completed (or paused by policy), the repair run
\* id as codex_run_id, and exactly two adapter invocations.
C2_RepairedRound ==
  \A i \in 1..Len(round_results) :
    (/\ trace[i].round_name # "round0"
     /\ trace[i].check_calls = 2
     /\ trace[i].script.check = "failed"
     /\ trace[i].script.recheck = "passed") =>
      /\ round_results[i].repaired
      /\ round_results[i].status \in {"completed", "paused"}
      /\ round_results[i].codex_run_id
           = <<call.workflow_id, round_results[i].round_name, "repair1">>
      /\ round_results[i].codex_success = "True"
      /\ round_results[i].check_passed = "True"
      /\ trace[i].codex_calls = 2

C2_Witness ==
  /\ pc = "returned"
  /\ outcome.status = "succeeded"
  /\ \E i \in 1..Len(round_results) :
       /\ trace[i].script.check = "failed"
       /\ trace[i].script.recheck = "passed"
       /\ trace[i].check_calls = 2
       /\ round_results[i].repaired

\* C3: in a round the adapter is invoked at most twice and verification at
\* most twice; the repair invocation happens only when the primary generation
\* succeeded, the first verification failed and auto repair is enabled; with
\* auto repair disabled a failed verification fails the round after exactly
\* one adapter invocation.
C3_BoundedRepair ==
  \A i \in 1..Len(trace) :
    /\ trace[i].codex_calls <= 2
    /\ trace[i].check_calls <= 2
    /\ trace[i].codex_calls = 2 =>
         /\ trace[i].script.codex = "success"
         /\ trace[i].script.check = "failed"
         /\ call.policy.auto_repair_check_failures
    /\ (/\ ~call.policy.auto_repair_check_failures
        /\ trace[i].round_name # "round0"
        /\ trace[i].script.codex = "success"
        /\ trace[i].script.check = "failed") =>
         /\ trace[i].codex_calls = 1
         /\ trace[i].check_calls = 1
         /\ round_results[i].status = "failed"
         /\ ~round_results[i].repaired

C3_Witness ==
  /\ pc = "returned"
  /\ ~call.policy.auto_repair_check_failures
  /\ \E i \in 1..Len(trace) :
       /\ trace[i].script.check = "failed"
       /\ trace[i].codex_calls = 1
       /\ round_results[i].status = "failed"

\* The round result i is the paused last result of the run, the workflow is
\* paused and the loop has been left.
PausedHere(i) ==
  /\ round_results[i].status = "paused"
  /\ round_status[round_results[i].round_name] = "paused"
  /\ i = Len(round_results)
  /\ workflow_status = "paused"
  /\ pc \in {"finalize", "returned"}
  /\ pc = "returned" => outcome.status = "paused"

\* C4 as stated: a round other than round0 that passes verification with
\* changed_lines greater than max_changed_lines (or changed_files greater
\* than max_changed_files) is paused, the workflow is paused and no later
\* round executes.
C4_Original ==
  \A i \in 1..Len(round_results) :
    (/\ round_results[i].round_name # "round0"
     /\ round_results[i].check_passed = "True"
     /\ \/ round_results[i].changed_lines > call.policy.max_changed_lines
        \/ round_results[i].changed_files > call.policy.max_changed_files) =>
      PausedHere(i)

\* C4 amended: the same for a limit that is not negative (a negative limit
\* switches the threshold off).
C4_ThresholdPause ==
  \A i \in 1..Len(round_results) :
    (/\ round_results[i].round_name # "round0"
     /\ round_results[i].check_passed = "True"
     /\ \/ /\ call.policy.max_changed_lines >= 0
           /\ round_results[i].changed_lines > call.policy.max_changed_lines
        \/ /\ call.policy.max_changed_files >= 0
           /\ round_results[i].changed_files > call.policy.max_changed_files) =>
      PausedHere(i)

C4_Witness ==
  /\ pc = "returned"
  /\ ~call.policy.pause_after_each_round
  /\ outcome.status = "paused"
  /\ Len(outcome.rounds) < Cardinality(RangeOfCall)
  /\ outcome.rounds[Len(outcome.rounds)].pause_reason = "changed_lines threshold exceeded"

\* The round after round_name in RUN_ORDER.
NextRound(round_name) == RUN_ORDER[RoundIndex(round_name) + 1]

\* resume() was called right after a run that paused at a round that is not
\* the last one, with pause_after_each_round off and limits no diff exceeds,
\* and it has executed a round.
ResumedAfterPause ==
  /\ call.op = "resume"
  /\ call.from_round # None
  /\ trace # <<>>
  /\ call.entry_paused_at \notin {None, "final"}
  /\ ~call.policy.pause_after_each_round
  /\ call.policy.max_changed_lines \notin 0..(MaxChanged - 1)
  /\ call.policy.max_changed_files \notin 0..(MaxChanged - 1)

\* Execution starts at the round after the paused one, which is not run again.
StartsAfterPausedRound ==
  /\ call.from_round = NextRound(call.entry_paused_at)
  /\ trace # <<>> => trace[1].round_name = NextRound(call.entry_paused_at)
  /\ \A i \in 1..Len(trace) : trace[i].round_name # call.entry_paused_at

\* C5 as stated: after a run that paused at round k (not the last round),
\* resume() starts at round k+1 and invokes neither generation nor
\* verification for round k.
C5_Original == ResumedAfterPause => StartsAfterPausedRound

\* Every round from the first round that is not pending up to the one before
\* round_name was completed when the call was made.
CompletedUpTo(round_name) ==
  \A i \in first_started_index(call.entry_round_status)..(RoundIndex(round_name) - 1) :
    call.entry_round_status[RUN_ORDER[i]] = "completed"

\* C5 amended: the same, provided every round from the first round that is
\* not pending up to round k-1 is completed when resume() is called.
C5_ResumeAfterPause ==
  (ResumedAfterPause /\ CompletedUpTo(call.entry_paused_at)) => StartsAfterPausedRound

C5_Witness ==
  /\ pc = "returned"
  /\ ResumedAfterPause
  /\ CompletedUpTo(call.entry_paused_at)
  /\ call.entry_round_status[call.entry_paused_at] = "paused"
  /\ Len(outcome.rounds) >= 2
  /\ outcome.rounds[1].round_name = NextRound(call.entry_paused_at)

\* C6: run() on a project whose session.json and round_status.json hold
\* invalid JSON does not raise; it returns a workflow result.
C6_CorruptedStateTolerated ==
  (call.op = "run" /\ call.entry_corrupt = {"session", "round_status"}) =>
    ~(pc = "raised" /\ outcome.error = "JSONDecodeError")

\* C7: when a collaborator raises while a round executes, the exception
\* reaches the caller with the session persisted as failed_recoverable,
\* current_run_id null and the round persisted as failed.
C7_ExceptionConverges ==
  (pc = "raised" /\ outcome.error = "RuntimeError") =>
    /\ session.status = "failed_recoverable"
    /\ session.current_run_id = NullRunId
    /\ round_status[RUN_ORDER[cur]] = "failed"

\* Every round from the first round that is not pending on was completed
\* when the call was made (and some round was not pending).
AllCompletedFromScanStart ==
  /\ first_started_index(call.entry_round_status) # 0
  /\ \A i \in first_started_index(call.entry_round_status)..Len(RUN_ORDER) :
       call.entry_round_status[RUN_ORDER[i]] = "completed"

\* C8: when every round from the scan start on is completed, resume()
\* executes no round, returns succeeded with no round results and leaves the
\* session idle with current_run_id null, whatever it held before.
C8_ResumeNoopNormalizesSession ==
  (pc = "returned" /\ call.op = "resume" /\ AllCompletedFromScanStart) =>
    /\ outcome.status = "succeeded"
    /\ outcome.rounds = <<>>
    /\ trace = <<>>
    /\ session.status = "idle"
    /\ session.current_run_id = NullRunId

\* C9: when final is persisted as paused and all earlier rounds as
\* completed, resume() executes no round, returns succeeded with no round
\* results, and final is persisted as completed.
C9_ResumeFinalPaused ==
  (/\ pc = "returned"
   /\ call.op = "resume"
   /\ call.entry_round_status["final"] = "paused"
   /\ \A i \in 1..(Len(RUN_ORDER) - 1) :
        call.entry_round_status[RUN_ORDER[i]] = "completed") =>
    /\ outcome.status = "succeeded"
    /\ outcome.rounds = <<>>
    /\ trace = <<>>
    /\ round_status["final"] = "completed"

\* C10: resume() with an explicit to_round earlier than the computed resume
\* point raises to the caller and executes no round.
C10_ResumeTargetBeforeResumePoint ==
  (/\ call.op = "resume"
   /\ call.from_round # None
   /\ call.to_round # None
   /\ RoundIndex(call.to_round) < RoundIndex(call.from_round)) =>
    /\ pc = "raised"
    /\ outcome.kind = "raised"
    /\ trace = <<>>
    /\ round_status = call.entry_round_status
    /\ session = call.entry_session

C10_Witness ==
  /\ pc = "raised"
  /\ call.op = "resume"
  /\ outcome.error = "ValueError"
  /\ call.entry_round_status[call.from_round] = "failed"
  /\ RoundIndex(call.to_round) < RoundIndex(call.from_round)

\* The round of trace entry i has its result appended, is persisted as failed
\* and is the last round of the call; the workflow is failed_recoverable and
\* the loop has been left.
FailedHere(i) ==
  /\ i = Len(trace)
  /\ i = Len(round_results)
  /\ round_results[i].round_name = trace[i].round_name
  /\ round_results[i].status = "failed"
  /\ round_status[trace[i].round_name] = "failed"
  /\ workflow_status = "failed_recoverable"
  /\ pc \in {"finalize", "returned"}
  /\ pc = "returned" =>
       /\ outcome.status = "failed_recoverable"
       /\ outcome.rounds[Len(outcome.rounds)] = round_results[i]

\* C11: when the primary generation of a round other than round0 fails, the
\* round is marked failed, the workflow is failed_recoverable with that round
\* as its last result, the round has no verification and no repair
\* invocation, and no later round executes.
C11_GenerationFailureStops ==
  \A i \in 1..Len(trace) :
    (trace[i].round_name # "round0" /\ trace[i].script.codex = "failure") =>
      /\ FailedHere(i)
      /\ trace[i].codex_calls = 1
      /\ trace[i].check_calls = 0
      /\ ~round_results[i].repaired
      /\ round_results[i].codex_success = "False"

C11_Witness ==
  /\ pc = "returned"
  /\ Len(trace) = 2
  /\ trace[2].script.codex = "failure"
  /\ trace[2].round_name # call.to_round
  /\ outcome.status = "failed_recoverable"
  /\ Len(outcome.rounds) = 2

\* C12: when the first verification of a round fails and a repair is
\* attempted, and the repair generation fails or the second verification
\* fails too, the round is failed, the workflow is failed_recoverable and the
\* round's result carries the repair run id with repaired = true.
C12_FailedRepair ==
  \A i \in 1..Len(trace) :
    (/\ trace[i].script.check = "failed"
     /\ trace[i].codex_calls = 2
     /\ \/ trace[i].script.repair = "failure"
        \/ trace[i].script.repair = "success" /\ trace[i].script.recheck = "failed") =>
      /\ FailedHere(i)
      /\ round_results[i].codex_run_id
           = <<call.workflow_id, trace[i].round_name, "repair1">>
      /\ round_results[i].repaired

C12_Witness ==
  /\ pc = "returned"
  /\ outcome.status = "failed_recoverable"
  /\ \E i \in 1..Len(trace) :
       /\ trace[i].script.check = "failed"
       /\ trace[i].script.repair = "success"
       /\ trace[i].script.recheck = "failed"
       /\ trace[i].check_calls = 2
       /\ round_results[i].repaired

\* C13: whenever run() returns, the persisted session status is idle, paused
\* or failed_recoverable according to the workflow status being succeeded,
\* paused or anything else, and current_run_id is null.
C13_SessionAfterReturn ==
  (pc = "returned" /\ call.from_round # None) =>
    /\ session.status = (IF outcome.status = "succeeded" THEN "idle"
                         ELSE IF outcome.status = "paused" THEN "paused"
                         ELSE "failed_recoverable")
    /\ session.current_run_id = NullRunId
    /\ "session" \notin corrupt

C13_Witness ==
  /\ pc = "returned"
  /\ call.from_round # None
  /\ outcome.status = "paused"
  /\ session.status = "paused"
  /\ call.entry_session.status = "failed_recoverable"

\* C19: WorkflowOrchestrator.run rejects a workflow_run_id that is not a
\* single path component (such as "../wf_escape") before it creates a
\* directory, executes a round or modifies the session or the round status.
C19_WorkflowRunIdRejected ==
  (call.op = "run" /\ call.workflow_id \notin RunIds \cup {NullRunId}) =>
    /\ pc = "raised"
    /\ outcome.error = "ValueError"
    /\ call.workflow_id \notin run_dirs
    /\ trace = <<>>
    /\ session = call.entry_session
    /\ round_status = call.entry_round_status

\* The frame of the CodexExecutor.run in flight.
frame == executor.frame

\* The generation subprocesses ("codex exec") started by the call in flight.
ExecCalls == Cardinality({i \in DOMAIN frame.commands : frame.commands[i] = "exec"})

\* The outputs of Stdios that hold a transient-failure marker.
TransientStdios == {<<"network", "timeout">>, <<"Connection", "timed", "out">>}

\* The attempt failed with an output that holds a transient-failure marker.
TransientFailure(c) == c.returncode # 0 /\ c.stdio \in TransientStdios

\* C14: for max_retries = R >= 0, CodexExecutor.run starts the generation
\* tool at most R+1 times; when every attempt fails with a transient-marker
\* output, the call does not raise and returns success = false with
\* attempts = R+1.
C14_BoundedAttempts ==
  frame.request.max_retries >= 0 =>
    /\ ExecCalls <= frame.request.max_retries + 1
    /\ Len(frame.attempts_log) <= frame.request.max_retries + 1
    /\ (/\ frame.completed # <<>>
        /\ frame.pc # "attempt"
        /\ \A i \in DOMAIN frame.completed : TransientFailure(frame.completed[i])) =>
         /\ frame.pc \in {"finish", "returned"}
         /\ ExecCalls = frame.request.max_retries + 1
         /\ frame.pc = "returned" =>
              /\ frame.result.kind = "returned"
              /\ ~frame.result.success
              /\ frame.result.attempts = frame.request.max_retries + 1

C14_Witness ==
  /\ frame.pc = "returned"
  /\ frame.request.max_retries = MaxRetries
  /\ \A i \in DOMAIN frame.completed : TransientFailure(frame.completed[i])
  /\ frame.result.attempts = MaxRetries + 1
  /\ ~frame.result.success

\* C15: another attempt starts only if the previous one exited non-zero,
\* attempts remain and its output holds a transient-failure marker; a
\* non-zero exit whose output holds no marker ends the run at once with
\* success = false, even when retries remain; an exit code 0 ends the run
\* with success = true.
C15_RetryOnlyOnTransientFailure ==
  \A i \in DOMAIN frame.completed :
    LET followed == i < Len(frame.completed) \/ frame.pc = "attempt"
        ends_run(success) ==
          /\ i = Len(frame.completed)
          /\ frame.pc \in {"finish", "returned"}
          /\ frame.pc = "returned" =>
               /\ frame.result.success = success
               /\ frame.result.attempts = i
    IN /\ followed =>
            /\ TransientFailure(frame.completed[i])
            /\ i <= frame.request.max_retries
       /\ (/\ frame.completed[i].returncode # 0
           /\ frame.completed[i].stdio \notin TransientStdios) =>
            ends_run(FALSE)
       /\ frame.completed[i].returncode = 0 => ends_run(TRUE)

C15_Witness ==
  /\ frame.pc = "returned"
  /\ frame.request.max_retries = MaxRetries
  /\ frame.completed = <<[returncode |-> 1, stdio |-> <<"invalid", "argument">>]>>
  /\ ~frame.result.success
  /\ frame.result.attempts = 1

\* C16: the manifest written by CodexExecutor.run records every attempt in
\* order, numbered 1..n; every attempt but the last has a non-zero exit code
\* and retry_reason "retryable_failure", the last has retry_reason null;
\* result.attempts = n and success = (the last exit code is 0).  A transient
\* first failure followed by a success gives success = true, attempts = 2.
C16_ManifestRecordsAttempts ==
  frame.pc = "returned" =>
    LET log == executor.manifest.attempts
        n == Len(log)
    IN /\ executor.manifest.run_id = frame.result.run_id
       /\ n = Len(frame.completed)
       /\ n = ExecCalls
       /\ n >= 1
       /\ \A i \in 1..n :
            /\ log[i].attempt = i
            /\ log[i].exit_code = frame.completed[i].returncode
            /\ i < n => /\ log[i].exit_code # 0
                        /\ log[i].retry_reason = "retryable_failure"
       /\ log[n].retry_reason = None
       /\ frame.result.attempts = n
       /\ frame.result.success = (log[n].exit_code = 0)
       /\ executor.manifest.success = frame.result.success
       /\ (/\ n = 2
           /\ frame.completed[1] = [returncode |-> 1, stdio |-> <<"network", "timeout">>]
           /\ frame.completed[2].returncode = 0) =>
            frame.result.success /\ frame.result.attempts = 2

C16_Witness ==
  /\ frame.pc = "returned"
  /\ frame.request.max_retries = 2
  /\ Len(frame.completed) = 2
  /\ frame.completed[1] = [returncode |-> 1, stdio |-> <<"network", "timeout">>]
  /\ frame.completed[2].returncode = 0
  /\ frame.result.success
  /\ frame.result.attempts = 2
  /\ executor.manifest.attempts[1].retry_reason = "retryable_failure"

\* C17: CodexExecutor.run with max_retries < 0 raises before any subprocess
\* is started and before a run directory is created.
C17_NegativeRetriesRejected ==
  frame.request.max_retries < 0 =>
    /\ frame.pc = "raised"
    /\ frame.result.kind = "raised"
    /\ frame.result.error = "ValueError"
    /\ frame.commands = <<>>
    /\ executor.dirs = frame.request.entry_dirs

C17_Witness ==
  /\ frame.pc = "raised"
  /\ frame.request.max_retries = -1
  /\ frame.request.run_id = <<"run_a">>
  /\ run_dir(<<"run_a">>) \notin executor.dirs
  /\ frame.result.error = "ValueError"

\* C18: CodexExecutor.run rejects an explicit run_id that is not a single
\* path component (such as "../escape") before a run directory is created
\* and before any subprocess is started.
C18_RunIdRejected ==
  (frame.request.run_id # <<>> /\ ~single_path_component(frame.request.run_id)) =>
    /\ frame.pc = "raised"
    /\ frame.result.kind = "raised"
    /\ frame.commands = <<>>
    /\ executor.dirs = frame.request.entry_dirs

\* What a read of the written path gives once the write is complete.
NewDocument == [error |-> None, document |-> store.call.payload]

\* C20: when _write_json is killed at any of its steps, a later read of the
\* target path gives the complete previous document (or no file, if there
\* was none) or the complete new document, never a partial one: the text goes
\* to a sibling temporary path that is renamed onto the target once it is
\* complete.
C20_AtomicWrite ==
  /\ \A path \in StorePaths : read_json(store.disk, path).error # "JSONDecodeError"
  /\ store.pc \in {"open", "write"} =>
       read_json(store.disk, store.call.path) = store.call.before
  /\ store.pc \in {"replace", "killed"} =>
       read_json(store.disk, store.call.path) \in {store.call.before, NewDocument}
  /\ store.pc = "replace" =>
       store.disk[temp_path(store.call.path)] = dump(store.call.payload)
  /\ store.pc = "done" => read_json(store.disk, store.call.path) = NewDocument

C20_Witness ==
  /\ store.pc = "killed"
  /\ store.call.before.error = None
  /\ store.call.before.document # store.call.payload
  /\ temp_path(store.call.path) \in DOMAIN store.disk
  /\ Len(store.disk[temp_path(store.call.path)]) = 2
  /\ read_json(store.disk, store.call.path) = store.call.before

\* ------------------------------------------------------ claims: CheckRunner
\* The CheckRunner.run that has just ended, with what its subprocess did.
check == checker.frame

CheckEnded == check.pc \in {"returned", "raised"}

TimedOut == CheckEnded /\ check.process.ended = "TimeoutExpired"

\* The words of a captured output that are not invalid bytes stay where they
\* are.
Preserved(captured, text) ==
  /\ Len(text) = Len(captured.text)
  /\ \A i \in DOMAIN text : captured.text[i] # "0xff" => text[i] = captured.text[i]

\* C21: when the verification subprocess exceeds the timeout, run() returns
\* (does not raise) a result with exit code 124, passed false and no payload,
\* even if the partial stdout is valid JSON; the partial stdout is kept as
\* captured, stderr starts with the partial stderr (less the whitespace
\* around it) and ends with the timeout notice.
C21_TimeoutResult ==
  TimedOut =>
    LET result == check.result
        notice == <<"check", "script", "timed", "out", "after",
                    seconds_text(check.timeout_seconds), "s">>
        partial == strip(timeout_output_text(check.process.stderr))
    IN /\ result.kind = "returned"
       /\ result.exit_code = 124
       /\ result.passed = FALSE
       /\ result.payload = None
       /\ Preserved(check.process.stdout, result.stdout)
       /\ Len(result.stderr) >= Len(notice)
       /\ SubSeq(result.stderr, Len(result.stderr) - Len(notice) + 1,
                 Len(result.stderr)) = notice
       /\ Preserved([text |-> strip(check.process.stderr.text)], partial)
       /\ SubSeq(result.stderr, 1, Len(partial)) = partial
       /\ check.output_path => checker.output = result

\* A timed out run whose partial stdout is a JSON object and whose partial
\* stderr is not empty.
C21_Witness ==
  /\ TimedOut
  /\ parse_json_payload(check.result.stdout) # None
  /\ check.process.stderr.text # <<>>

\* The outputs of CheckStdouts that are one JSON object and whitespace.
JsonStdouts ==
  {<<"{", "passed_true", "}", "newline">>, <<"newline", "{", "passed_false", "}">>}

\* C22: run() reports passed exactly when the script's exit code is 0,
\* whatever the payload: absent or malformed stdout JSON gives no payload
\* and leaves passed as the exit code has it, and a payload that says
\* passed:false with exit code 0 still gives passed.
C22_PassedByExitCode ==
  check.pc = "returned" =>
    LET result == check.result
        process == check.process
        completed == process.ended = "CompletedProcess"
    IN /\ result.passed <=> (completed /\ process.returncode = 0)
       /\ result.passed <=> result.exit_code = 0
       /\ completed => result.exit_code = process.returncode
       /\ (completed /\ process.stdout.text \notin JsonStdouts) => result.payload = None
       /\ (completed /\ process.stdout.text \in JsonStdouts) =>
            result.payload = strip(process.stdout.text)[2]

\* The script exits with 0 and its report says passed:false.
C22_Witness ==
  /\ check.pc = "returned"
  /\ check.process.ended = "CompletedProcess"
  /\ check.process.returncode = 0
  /\ check.result.payload = "passed_false"
  /\ check.result.passed

\* -------------------------------------------------- claims: SnapshotService
\* The SnapshotService call that has just ended.
snap == snapshots.frame

Verified == snap.op = "verify_snapshot_hashes" /\ snap.pc \in {"returned", "raised"}

Created == snap.op = "create_snapshot" /\ snap.pc \in {"returned", "raised"}

\* The files that the snapshot of the hash manifest holds.
CurrentCopies ==
  {path \in DOMAIN snapshots.disk.files :
     is_prefix(ArtifactsRoot \o <<"snapshots", snapshots.disk.hashes.snapshot_id>>, path)}

\* C23: verify_snapshot_hashes right after create_snapshot of n files reports
\* valid, checked_files = n and no mismatch; after the content of exactly one
\* copied file is changed it reports not valid, the same checked_files and
\* exactly one mismatch, a hash_mismatch.
C23_SnapshotRoundTrip ==
  (Verified /\ snapshots.disk.hashes.kind = "dict") =>
    LET result == snap.result
        n == Cardinality(CurrentCopies)
    IN /\ snapshots.tampered = {} =>
            /\ result.kind = "returned"
            /\ result.valid
            /\ result.checked_files = n
            /\ result.mismatches = <<>>
       /\ (Cardinality(snapshots.tampered) = 1 /\ snapshots.tampered \subseteq CurrentCopies) =>
            /\ result.kind = "returned"
            /\ ~result.valid
            /\ result.checked_files = n
            /\ Len(result.mismatches) = 1
            /\ result.mismatches[1].reason = "hash_mismatch"

\* The target of a manifest entry: the file its relative path names from the
\* project root (or from the root of the file system when it is absolute).
EntryTarget(key) ==
  IF key[1] = "/" THEN realpath(SubSeq(key, 2, Len(key)))
  ELSE realpath(ProjectRoot \o key)

\* The relative path contains "..", is absolute or resolves outside the
\* project root.
Escapes(key) ==
  \/ \E i \in DOMAIN key : key[i] = ".."
  \/ key[1] = "/"
  \/ ~is_prefix(ProjectRoot, EntryTarget(key))

HasSymlink(source) ==
  \E link \in DOMAIN Links : is_prefix(source, link)

\* C25: create_snapshot rejects every source that is itself a symlink, or
\* that contains a symlink anywhere inside it, before anything is copied: no
\* snapshot directory is created and the hash manifest and source index are
\* left unchanged.
C25_SymlinkSourcesRejected ==
  (Created /\ \E i \in DOMAIN snap.sources : HasSymlink(snap.sources[i])) =>
    /\ snap.result.kind = "raised"
    /\ snapshots.disk = snap.entry

\* ------------------------------------------------------ claims: DiffService
\* The links of the tree that point outside the working root.
OutwardLinks ==
  {path \in DOMAIN differ.tree :
     /\ differ.tree[path].kind = "link"
     /\ ~is_prefix(NotesRoot, differ.tree[path].target)}

\* C26: capture_state never includes an entry reached through a symlink that
\* points outside the working root: the path of such a link is absent from
\* the mapping returned and the outside file is never read, while the regular
\* files under the root are all captured.
C26_OutwardLinksExcluded ==
  differ.frame.pc = "returned" =>
    /\ \A path \in OutwardLinks :
         relative_to(path, NotesRoot) \notin DOMAIN differ.frame.state
    /\ \A path \in differ.frame.reads : is_prefix(NotesRoot, path)
    /\ \A path \in DOMAIN differ.tree :
         differ.tree[path].kind = "file" =>
           /\ relative_to(path, NotesRoot) \in DOMAIN differ.frame.state
           /\ differ.frame.state[relative_to(path, NotesRoot)] = differ.tree[path].content

\* ------------------------------------------------------------ C27, C28
hist == history.frame

PatchCallEnded ==
  /\ hist.pc \in {"returned", "raised"}
  /\ hist.op \in {"resolve_patch_path", "read_patch"}

\* A string that names one path component: no separator in it, and not
\* empty, "." or "..".
SingleComponent(value) == Len(value) = 1 /\ value[1] \notin {"", ".", "..", "/"}

\* The directory of the run a call names.
RunDirectory == RunsDir \o hist.run_id

\* The round names listed in workflow_result.json of the run a call names.
ListedRounds ==
  LET rounds == history.documents[hist.run_id[1]].rounds IN
  {rounds[i] : i \in DOMAIN rounds}

\* The call had to take the round from workflow_result.json: no round_name
\* was given and the run has no changes.patch of its own.
RoundsConsulted ==
  /\ PatchCallEnded
  /\ hist.round_name = <<>>
  /\ hist.run_id[1] \in WorkflowRuns
  /\ history.documents[hist.run_id[1]].kind = "dict"

C28_ListRunsToleratesInvalidJson ==
  (hist.op = "list_runs" /\ hist.pc \in {"returned", "raised"}) =>
    \A name \in WorkflowRuns :
      history.documents[name] = InvalidDocument
      => /\ hist.pc = "returned"
         /\ \E i \in DOMAIN hist.result.records :
              hist.result.records[i] = RunRecord(name, "workflow", "unknown")

\* ------------------------------------------------------------ C29, C30
\* C29: in a call with pause_after_each_round set, a round that passes
\* verification is the first round of the call, it is marked paused in its
\* result and in round_status.json, the workflow status becomes paused, and
\* the call ends with exactly one round executed, however many rounds the
\* range holds.
C29_PauseAfterEachRound ==
  (EnteredLoop /\ call.policy.pause_after_each_round) =>
    /\ Len(trace) <= 1
    /\ \A i \in 1..Len(round_results) :
         round_results[i].check_passed = "True" =>
           /\ i = 1
           /\ round_results[i].round_name = call.from_round
           /\ round_results[i].status = "paused"
           /\ round_status[call.from_round] = "paused"
           /\ workflow_status = "paused"
           /\ pc \in {"finalize", "returned"}
    /\ pc = "returned" =>
         /\ Len(trace) = 1
         /\ Len(outcome.rounds) = 1
         /\ outcome.rounds[1].check_passed = "True" => outcome.status = "paused"

\* A run over at least three rounds with pause_after_each_round set, no
\* threshold exceeded, returned paused after its first round.
C29_Witness ==
  /\ pc = "returned"
  /\ call.policy.pause_after_each_round
  /\ Cardinality(RangeOfCall) >= 3
  /\ outcome.status = "paused"
  /\ Len(outcome.rounds) = 1
  /\ outcome.rounds[1].pause_reason = "pause_after_each_round enabled"
  /\ round_status[call.from_round] = "paused"

\* The rounds whose collaborators the call in flight has invoked, in order.
Executed == [i \in 1..Len(trace) |-> trace[i].round_name]

\* C30: the rounds of a call execute one at a time in RUN_ORDER from
\* from_round on; when a round is about to be executed, round_status.json
\* holds "running" for it and none of its collaborators has been called;
\* and a round is begun only when every round of the call before it has
\* been executed and is persisted as completed.
C30_RoundsOneAtATime ==
  EnteredLoop =>
    /\ \E executed \in {Executed} :
         \A i \in 1..Len(trace) :
           executed[i] = RUN_ORDER[RoundIndex(call.from_round) + i - 1]
    /\ pc \in {"begin_round", "execute_round"} =>
         /\ cur = RoundIndex(call.from_round) + Len(trace)
         /\ cur \in RangeOfCall
         /\ Len(round_results) = Len(trace)
         /\ \A i \in RoundIndex(call.from_round)..(cur - 1) :
              round_status[RUN_ORDER[i]] = "completed"
         /\ \A i \in 1..Len(round_results) : round_results[i].status = "completed"
    /\ pc = "execute_round" => round_status[RUN_ORDER[cur]] = "running"

\* The third round of a call is persisted as running and about to be
\* executed, the two before it are completed.
C30_Witness ==
  /\ pc = "execute_round"
  /\ cur = RoundIndex(call.from_round) + 2
  /\ Len(trace) = 2
  /\ round_status[RUN_ORDER[cur]] = "running"
  /\ round_status[RUN_ORDER[cur - 1]] = "completed"

\* ------------------------------------------------------------------ C31
\* The status of the round with index i in the file resume() was given.
StatusAt(i) == resumer.round_status[RUN_ORDER[i]]

\* Where the scan starts: the first round that is not pending, round0 when
\* every round is pending.
ScanStart ==
  IF \A i \in 1..Len(RUN_ORDER) : StatusAt(i) = "pending" THEN 1
  ELSE CHOOSE i \in 1..Len(RUN_ORDER) :
         StatusAt(i) # "pending" /\ \A j \in 1..(i - 1) : StatusAt(j) = "pending"

\* The rounds from the scan start on that are not completed.
NotCompleted == {i \in ScanStart..Len(RUN_ORDER) : StatusAt(i) # "completed"}

FirstNotCompleted == CHOOSE i \in NotCompleted : \A j \in NotCompleted : i <= j

\* C31: for each assignment of the five statuses to the five rounds, the
\* resume point is the first round from the scan start on that is not
\* completed when that round is pending, failed or running, and the round
\* after it when it is paused (none when it is final); there is none when all
\* rounds from the scan start on are completed; and the resume point never
\* precedes the scan start (the first round that is not pending; round0
\* when all are pending).
C31_ResumePoint ==
  resumer.pc = "resolved" =>
    /\ NotCompleted = {} => resumer.from_round = None
    /\ NotCompleted # {} =>
         IF StatusAt(FirstNotCompleted) \in {"pending", "failed", "running"}
         THEN resumer.from_round = RUN_ORDER[FirstNotCompleted]
         ELSE /\ StatusAt(FirstNotCompleted) = "paused"
              /\ resumer.from_round =
                   IF FirstNotCompleted = Len(RUN_ORDER) THEN None
                   ELSE RUN_ORDER[FirstNotCompleted + 1]
    /\ resumer.from_round # None => RoundIndex(resumer.from_round) >= ScanStart

\* round0 is pending, round1 and round2 completed, round3 paused, final
\* completed: the resume point is final.
C31_Witness ==
  /\ resumer.pc = "resolved"
  /\ resumer.round_status =
       [round0 |-> "pending", round1 |-> "completed", round2 |-> "completed",
        round3 |-> "paused", final |-> "completed"]
  /\ resumer.from_round = "final"

\* ------------------------------------------------------------------ C32
\* A call is in its loop, has left it, or ended in it with an exception.
InRun == EnteredLoop \/ (pc = "raised" /\ trace # <<>>)

\* C32: within one run(), the round about to be executed is persisted as
\* running; a round that has its result is persisted with the status of that
\* result, which is completed, failed or paused, for the rest of the call;
\* and a failed or paused round is the last round the call touches: the loop
\* is left with it.
C32_StatusTransitions ==
  InRun =>
    /\ pc = "execute_round" =>
         /\ round_status[RUN_ORDER[cur]] = "running"
         /\ \A i \in 1..Len(round_results) : round_results[i].round_name # RUN_ORDER[cur]
    /\ \A i \in 1..Len(round_results) :
         /\ round_results[i].status \in {"completed", "failed", "paused"}
         /\ round_status[round_results[i].round_name] = round_results[i].status
         /\ \A j \in 1..(i - 1) : round_results[j].round_name # round_results[i].round_name
         /\ round_results[i].status \in {"failed", "paused"} =>
              /\ i = Len(round_results)
              /\ Len(trace) = i
              /\ pc \in {"finalize", "returned"}

\* A round that the state held as completed before the call was run again
\* and failed, after an earlier round of the same call was completed.
C32_Witness ==
  /\ pc = "returned"
  /\ Len(round_results) >= 2
  /\ round_results[1].status = "completed"
  /\ round_results[Len(round_results)].status = "failed"
  /\ call.entry_round_status[round_results[Len(round_results)].round_name] = "completed"
  /\ round_status[round_results[Len(round_results)].round_name] = "failed"

\* C33: round0 never invokes the execution adapter: it runs the scaffold
\* initializer once and then the verification once; when that verification
\* fails, round0 is marked failed without a repair and without an execution
\* run id, the workflow ends failed_recoverable and no later round executes.
C33_Round0WithoutAdapter ==
  \A i \in 1..Len(trace) :
    trace[i].round_name = "round0" =>
      /\ trace[i].init_calls = 1
      /\ trace[i].codex_calls = 0
      /\ trace[i].check_calls = 1
      /\ trace[i].script.check = "failed" =>
           /\ FailedHere(i)
           /\ round_results[i].codex_run_id = NoRunId
           /\ round_results[i].repaired = FALSE

\* A call over several rounds with automatic repair switched on has returned
\* failed_recoverable after the verification of round0 failed.
C33_Witness ==
  /\ pc = "returned"
  /\ call.from_round = "round0"
  /\ call.to_round = "final"
  /\ call.policy.auto_repair_check_failures
  /\ Len(trace) = 1
  /\ trace[1].round_name = "round0"
  /\ trace[1].script.check = "failed"
  /\ outcome.status = "failed_recoverable"
  /\ round_status["round0"] = "failed"

\* C34: the changed-file and changed-line thresholds are not applied to
\* round0: whatever the diff and the limits, a round0 whose verification
\* passed is completed, unless pause_after_each_round is set, and then it is
\* paused for that reason.
C34_Round0IgnoresThresholds ==
  \A i \in 1..Len(trace) :
    (trace[i].round_name = "round0" /\ trace[i].script.check = "passed") =>
      /\ i <= Len(round_results)
      /\ round_results[i].round_name = "round0"
      /\ round_results[i].status =
           (IF call.policy.pause_after_each_round THEN "paused" ELSE "completed")
      /\ round_results[i].pause_reason =
           (IF call.policy.pause_after_each_round
            THEN "pause_after_each_round enabled" ELSE None)

\* round0 passed its verification with more changed files than the configured
\* limit allows and was completed.
C34_Witness ==
  /\ Len(trace) >= 1
  /\ trace[1].round_name = "round0"
  /\ trace[1].script.check = "passed"
  /\ call.policy.max_changed_files >= 0
  /\ trace[1].script.diff.changed_files > call.policy.max_changed_files
  /\ ~call.policy.pause_after_each_round
  /\ round_results[1].status = "completed"
  /\ round_status["round0"] = "completed"

\* C35: in every result returned by run(), the rounds are the selected range
\* or a prefix of it, in order; every round but possibly the last is
\* completed; the status is succeeded iff the rounds cover the whole range and
\* are all completed, paused iff the last round is paused, and
\* failed_recoverable iff the last round is failed.
C35_ResultShape ==
  (pc = "returned" /\ call.from_round # None) =>
    LET rounds == outcome.rounds
        n == Len(rounds)
        lo == RoundIndex(call.from_round)
        hi == RoundIndex(call.to_round)
        all_completed == \A i \in 1..n : rounds[i].status = "completed"
    IN /\ n \in 1..(hi - lo + 1)
       /\ \A i \in 1..n : rounds[i].round_name = RUN_ORDER[lo + i - 1]
       /\ \A i \in 1..(n - 1) : rounds[i].status = "completed"
       /\ outcome.status \in {"succeeded", "paused", "failed_recoverable"}
       /\ (outcome.status = "succeeded") <=> (n = hi - lo + 1 /\ all_completed)
       /\ (outcome.status = "paused") <=> (rounds[n].status = "paused")
       /\ (outcome.status = "failed_recoverable") <=> (rounds[n].status = "failed")

\* A call over at least three rounds has returned paused with a proper prefix
\* of its range.
C35_Witness ==
  /\ pc = "returned"
  /\ call.from_round # None
  /\ RoundIndex(call.to_round) - RoundIndex(call.from_round) >= 2
  /\ Len(outcome.rounds) = 2
  /\ outcome.rounds[1].status = "completed"
  /\ outcome.rounds[2].status = "paused"
  /\ outcome.status = "paused"

\* C36: once a resume() that followed a pause at a round k has completed every
\* remaining round through final, a further resume() with nothing changed in
\* between executes no round: the paused round k does not make the rounds
\* after it run again.
C36_ResumeIdempotentWhenFinished ==
  (call.op = "resume" /\ call.entry_finished_past # None) =>
    /\ pc \in {"returned", "raised"}
    /\ trace = <<>>
    /\ pc = "returned" => outcome.rounds = <<>>

\* The call stopped at a failed or paused round: the index of that round in
\* RUN_ORDER, and 0 when the call has not stopped so.
StopIndex ==
  IF /\ round_results # <<>>
     /\ round_results[Len(round_results)].status \in {"failed", "paused"}
  THEN RoundIndex(round_results[Len(round_results)].round_name)
  ELSE 0

\* C37: run() leaves the persisted status of every round outside
\* [from_round, to_round], and of every round of the range after the round at
\* which it stopped as failed or paused, as it was before the call.
C37_OtherRoundsUntouched ==
  InRun =>
    LET lo == RoundIndex(call.from_round)
        hi == RoundIndex(call.to_round)
        stop == StopIndex
    IN \A i \in 1..Len(RUN_ORDER) :
         (i < lo \/ i > hi \/ (stop # 0 /\ i > stop)) =>
           round_status[RUN_ORDER[i]] = call.entry_round_status[RUN_ORDER[i]]

\* A call from round1 to round3 over a state in which round0, round3 and
\* final were completed has stopped at round1 or round2: round3 inside the
\* range and the two rounds outside of it hold what they held.
C37_Witness ==
  /\ pc = "returned"
  /\ call.from_round = "round1"
  /\ call.to_round = "round3"
  /\ StopIndex \in {RoundIndex("round1"), RoundIndex("round2")}
  /\ call.entry_round_status["round0"] = "completed"
  /\ call.entry_round_status["round3"] = "completed"
  /\ call.entry_round_status["final"] = "completed"
  /\ round_status["round0"] = "completed"
  /\ round_status["round3"] = "completed"
  /\ round_status["final"] = "completed"

\* C38: a run() rejected for its configuration (from_round later than
\* to_round, or a workflow_run_id whose run directory exists) raises without
\* executing a round and leaves session.json and round_status.json exactly as
\* they were.
C38_RejectedRunLeavesState ==
  (pc = "raised" /\ outcome.error \in {"ValueError", "FileExistsError"}) =>
    /\ trace = <<>>
    /\ round_results = <<>>
    /\ session = call.entry_session
    /\ round_status = call.entry_round_status
    /\ corrupt = call.entry_corrupt

\* A run() with from_round later than to_round was rejected over the state a
\* paused run had left.
C38_Witness ==
  /\ pc = "raised"
  /\ call.op = "run"
  /\ outcome.error = "ValueError"
  /\ RoundIndex(call.from_round) > RoundIndex(call.to_round)
  /\ session.status = "paused"
  /\ \E r \in RoundNames : round_status[r] = "paused"

\* C39: from the moment run() has marked its first round running until it
\* returns a result, session.json holds status running and the workflow id of
\* the call; the session gets its final status only once the status of the
\* last round of the call is persisted.
C39_SessionRunningDuringRun ==
  /\ (pc = "execute_round" \/ (InFlight /\ trace # <<>>)) =>
       session = [status |-> "running", current_run_id |-> call.workflow_id]
  /\ (pc = "returned" /\ call.from_round # None) =>
       /\ session.status \in {"idle", "paused", "failed_recoverable"}
       /\ session.current_run_id = NullRunId
       /\ round_results # <<>>
       /\ round_status[round_results[Len(round_results)].round_name]
            = round_results[Len(round_results)].status

\* The last round of a second call is persisted as failed while the session,
\* which the first call had left paused, is still running under the id of
\* the second call.
C39_Witness ==
  /\ pc = "finalize"
  /\ call.entry_session.status = "paused"
  /\ Len(round_results) >= 2
  /\ round_status[round_results[Len(round_results)].round_name] = "failed"
  /\ session.status = "running"
  /\ session.current_run_id = call.workflow_id

\* ------------------------------------------------------------------ C40
\* C40: a stop request is never lost: when TimerService.stop() was called at
\* any moment after the start() that created the runner (the worker thread
\* may not have entered PomodoroRunner.run yet), the run ends interrupted and
\* the interval current at its end is logged as not completed with the manual
\* stop reason; the service is idle once the run has ended.
C40_StopNeverLost ==
  (timer.pc = "returned" /\ timer.stop_at # None) =>
    /\ timer.result.interrupted
    /\ timer.sessions # <<>>
    /\ ~timer.sessions[Len(timer.sessions)].completed
    /\ timer.sessions[Len(timer.sessions)].interrupted_reason = ManualStop
    /\ timer.status = "idle"

====
